---------------------------- MODULE Spec2Model ----------------------------
(***************************************************************************)
(* A model of the session daemon (crates kobo-daemon / mado-daemon):       *)
(*   - the PID guard and the socket file of the daemon lifecycle,          *)
(*   - the per-workspace lock registry,                                    *)
(*   - the atomic state store,                                             *)
(*   - the chat supervisor (one child process per user turn) and the       *)
(*     message log it serves,                                              *)
(*   - the session manager, the event fan-out, the client bootstrap and    *)
(*     the workspace operations.                                           *)
(* Each part has its own specification (SpecPid, SpecLocks, SpecState,     *)
(* SpecChat, SpecMessages, SpecSession, SpecStream, SpecClient, SpecGit,   *)
(* SpecStage) over its own variables; the other variables stay unchanged.  *)
(***************************************************************************)
EXTENDS Integers, Sequences, FiniteSets, TLC

(***************************************************************************)
(* Bounds of the model.                                                    *)
(***************************************************************************)
\* Daemon processes that race for one pid_path.
NProcs == 2

\* Request handlers that run workspace operations concurrently.
NHandlers == 3

\* The most tokens one write call of write_all takes.
MaxWrite == 2

\* send_message calls (chat turns) on the session.
MaxTurns == 2

\* cancel_response calls on the session.
MaxCancels == 1

\* The subscribers of the event fan-out.
NSubs == 2

\* The items sent on one broadcast channel.
MaxItems == 3

\* The capacity of the PTY output channel (64 in the code), scaled down.
OutputCapacity == 1

\* The capacity of the chat event channel (256 in the code), scaled down.
EventCapacity == 2

VARIABLES
    \* ---- PID guard / lifecycle (pid.rs, lifecycle.rs, server.rs) ----
    pidFile,      \* the file at pid_path: [exists, ino, content]
    sockFile,     \* the file at socket_path: [exists, listener]
    alive,        \* the daemon processes (of this user) that are running
    nextIno,      \* inode counter of the file system
    pc,           \* position of each daemon process in start_with_shutdown
    existing,     \* acquire's local existing_pid
    sockArg,      \* acquire's argument socket_path is Some(..)
    fd,           \* inode of the file opened by write_pid's File::create
    result,       \* what acquire returned, then AlreadyRunning of start_server
    cleaned,      \* history: the files this process' acquire removed
    held,         \* history: the live holder seen during the whole acquire
    stale,        \* history: acquire started on a stale file, undisturbed
    \* ---- workspace locks (mado-daemon server.rs) ----
    regOwner,     \* the handler that holds WorkspaceLocks.inner, or 0
    registry,     \* the map path -> mutex, as a set of <<path, mutex>>
    nextMutex,    \* the next mutex to allocate
    locked,       \* the per-path mutexes that are locked
    hpc,          \* position of each request handler
    hpath,        \* the working directory the handler resolved
    hmutex,       \* the Arc<Mutex<()>> the handler cloned out of the map
    \* ---- state store (kobo-daemon state.rs) ----
    stFile,       \* the file at the state path: [exists, content]
    tmpFile,      \* its sibling <path>.json.tmp: [exists, content]
    mem,          \* DaemonState.sessions of the running daemon
    spc,          \* position of the daemon in save / load
    json,         \* save's serialized document
    loadRes,      \* what the last load returned
    before,       \* history: the state file when the last save began
    saving,       \* history: the sessions the last save was given
    savedState,   \* history: the sessions of the last save that returned Ok
    \* ---- chat supervisor (mado-daemon conversation.rs), one session ----
    sessions,         \* the ConversationSession of the session, when it exists
    active_processes, \* the turn whose Child the table holds, or 0
    sessLock,         \* holder of sessions.write(): 0, a reader's turn, or Canceller
    activeLock,       \* holder of active_processes.lock(), likewise
    dsid,             \* claude_session_id of the session in DaemonState
    diskSid,          \* claude_session_id of its record in the state file
    stream,           \* the events sent on the session's broadcast channel
    tpc,              \* position of each turn's send_message call
    tres,             \* what each send_message call returned
    script,           \* the lines each turn's child prints
    eof,              \* how many of them reach the pipe before it closes
    rpos,             \* lines the turn's reader has read
    rpc,              \* position of each turn's reader task
    acc,              \* accumulated_text of each reader (number of blocks)
    fsid,             \* final_claude_sid of each reader (0 is None)
    cpc,              \* position of the cancel_response call
    ctarget,          \* the turn whose handle the call took out of the table
    cres,             \* what the last cancel_response returned
    ncancel,          \* cancel_response calls made
    persisted,        \* history: the ids that have been in the state file
    stateLock,        \* holder of the DaemonState mutex: 0 or a reader's turn
    \* ---- session manager and daemon run (session.rs, lifecycle.rs) ----
    daemon,           \* position of the daemon: down, serving, flushing, draining
    save_state,       \* the clone of the loaded state kept by the shutdown task
    processes,        \* the session ids of ProcessManager.processes
    ptyChildren,      \* the session ids whose PTY child is running
    conversations,    \* the session ids of ConversationManager.sessions
    turnChildren,     \* the session ids whose per-turn chat child is running
    event_senders,    \* the session ids of ConversationManager.event_senders
    response,         \* the last response of the RPC surface
    liveAtTrigger,    \* history: the session map when shutdown was triggered
    \* ---- event fan-out (server.rs, conversation.rs, process.rs) ----
    tx,               \* each channel: [made, tail (the items stored so far)]
    rx,               \* each subscriber's receiver: [st, key, start, next, missed]
    sse,              \* the SSE events each subscriber has been sent
    \* ---- client bootstrap (mado-core/src/client.rs) ----
    epc,              \* where ensure_daemon_running is
    eres,             \* what ensure_daemon_running returned
    elapsed,          \* poll intervals since the polling started
    pong,             \* history: the last ping was answered with Pong
    launched,         \* a daemon process was spawned by the call
    srv,              \* what listens on the socket path
    cpid,             \* the PID file next to the socket
    \* ---- workspace operations (git_ops.rs, server.rs) ----
    wt,               \* the working tree: the content of every file
    index,            \* the index file of the repository
    index0,           \* history: the index before the stage-files requests
    commits,          \* the trees of the commits, by oid
    head,             \* the commit HEAD names
    gres,             \* the result of the last workspace operation
    gpc,              \* where each stage-files handler is
    greq,             \* the file_paths of each stage-files request
    gidx,             \* the index each handler has read
    gheld,            \* the handlers that hold the workspace lock
    gparallel,        \* history: a handler waited for the lock while the other held it
    \* ---- chat history queries (mado-daemon server.rs, conversation.rs) ----
    gmres             \* the response of the last get-messages request

pidVars == <<pidFile, sockFile, alive, nextIno, pc, existing, sockArg, fd,
             result, cleaned, held, stale>>

lockVars == <<regOwner, registry, nextMutex, locked, hpc, hpath, hmutex>>

stateVars == <<stFile, tmpFile, mem, spc, json, loadRes, before, saving, savedState>>

chatVars ==
    <<sessions, active_processes, sessLock, activeLock, dsid, diskSid, stream,
      tpc, tres, script, eof, rpos, rpc, acc, fsid, cpc, ctarget, cres,
      ncancel, persisted, stateLock>>

sessVars ==
    <<daemon, save_state, processes, ptyChildren, conversations, turnChildren,
      event_senders, response, liveAtTrigger>>

streamVars == <<tx, rx, sse>>

clientVars == <<epc, eres, elapsed, pong, launched, srv, cpid>>

gitVars == <<wt, index, index0, commits, head, gres, gpc, greq, gidx, gheld, gparallel>>

pageVars == <<gmres>>

vars ==
    <<pidVars, lockVars, stateVars, chatVars, sessVars, streamVars,
      clientVars, gitVars, pageVars>>

\* Frame conditions: a step of one part leaves the other parts alone.
PidOnly == UNCHANGED
    <<lockVars, stateVars, chatVars, sessVars, streamVars, clientVars,
      gitVars, pageVars>>

LocksOnly == UNCHANGED
    <<pidVars, stateVars, chatVars, sessVars, streamVars, clientVars,
      gitVars, pageVars>>

StateOnly == UNCHANGED
    <<pidVars, lockVars, chatVars, sessVars, streamVars, clientVars, gitVars,
      pageVars>>

ChatOnly == UNCHANGED
    <<pidVars, lockVars, stateVars, sessVars, streamVars, clientVars,
      gitVars, pageVars>>

\* The session manager works on the session map and the state file.
SessionOnly ==
    UNCHANGED <<pidVars, lockVars, chatVars, streamVars, tmpFile, spc, json,
                loadRes, before, saving, savedState, clientVars, gitVars, pageVars>>

StreamOnly == UNCHANGED
    <<pidVars, lockVars, stateVars, chatVars, sessVars, clientVars, gitVars,
      pageVars>>

ClientOnly == UNCHANGED
    <<pidVars, lockVars, stateVars, chatVars, sessVars, streamVars, gitVars,
      pageVars>>

GitOnly == UNCHANGED
    <<pidVars, lockVars, stateVars, chatVars, sessVars, streamVars,
      clientVars, pageVars>>

PageOnly == UNCHANGED
    <<pidVars, lockVars, stateVars, chatVars, sessVars, streamVars,
      clientVars, gitVars>>

---------------------------------------------------------------------------
(***************************************************************************)
(* Text of a PID file: a sequence of characters.                           *)
(***************************************************************************)
DigitChars == <<"0", "1", "2", "3", "4", "5", "6", "7", "8", "9">>

IsDigit(c) == \E d \in 1..10 : DigitChars[d] = c

DigitVal(c) == (CHOOSE d \in 1..10 : DigitChars[d] = c) - 1

IsSpace(c) == c \in {" ", "\n"}

\* write!(file, "{}", pid): the decimal text of a u32.
RECURSIVE FormatPid(_)
FormatPid(n) ==
    IF n < 10 THEN <<DigitChars[n + 1]>>
    ELSE FormatPid(n \div 10) \o <<DigitChars[(n % 10) + 1]>>

\* str::trim: drop white space at both ends.
RECURSIVE Trim(_)
Trim(s) ==
    IF s = <<>> THEN s
    ELSE IF IsSpace(Head(s)) THEN Trim(Tail(s))
    ELSE IF IsSpace(s[Len(s)]) THEN Trim(SubSeq(s, 1, Len(s) - 1))
    ELSE s

RECURSIVE DigitsValue(_)
DigitsValue(s) ==
    IF s = <<>> THEN 0
    ELSE 10 * DigitsValue(SubSeq(s, 1, Len(s) - 1)) + DigitVal(s[Len(s)])

\* str::parse::<u32>: an optional '+', then one or more digits, below 2^32.
\* Every text of at most 9 digits is below 2^32; the PID files of the model
\* are shorter, so longer texts (which may overflow) are left unparsed.
ParseU32(s) ==
    LET body == IF s # <<>> /\ Head(s) = "+" THEN Tail(s) ELSE s
    IN  IF body # <<>> /\ (\A i \in 1..Len(body) : IsDigit(body[i]))
           /\ Len(body) <= 9
        THEN [ok |-> TRUE, val |-> DigitsValue(body)]
        ELSE [ok |-> FALSE, val |-> 0]

---------------------------------------------------------------------------
(***************************************************************************)
(* Processes.  Procs are the daemon processes of this user.  StalePids are *)
(* PIDs of no process; ForeignPids are live processes of another user, for *)
(* which kill(pid, 0) fails with EPERM.                                    *)
(***************************************************************************)
Procs == 2..(NProcs + 1)

StalePids == {99}

ForeignPids == {1}

\* A liveness probe with the comparison inverted (kill(pid, 0) != 0).
is_process_alive_inverted(pid) == pid \notin alive

\* is_process_alive: kill(pid, 0) == 0.
is_process_alive(pid) == pid \in alive

AbsentFile == [exists |-> FALSE, ino |-> 0, content |-> <<>>]

NoSocket == [exists |-> FALSE, listener |-> 0]

\* A read_pid that takes an unparseable text for PID 0.
read_pid_lenient ==
    IF ~pidFile.exists THEN [kind |-> "IoError", pid |-> 0]
    ELSE [kind |-> "Ok", pid |-> ParseU32(Trim(pidFile.content)).val]

\* PidFile::read_pid on the file as it is now.
read_pid ==
    IF ~pidFile.exists THEN [kind |-> "IoError", pid |-> 0]
    ELSE LET r == ParseU32(Trim(pidFile.content))
         IN  IF r.ok THEN [kind |-> "Ok", pid |-> r.val]
             ELSE [kind |-> "InvalidPidFile", pid |-> 0]

\* The positions inside PidFile::acquire.
InAcquire == {"read", "alive", "rm_pid", "rm_sock", "create", "write"}

\* Positions of a process that has returned from or left start_with_shutdown.
Gone == {"exited", "crashed"}

\* The PID file holds the PID of the live daemon process h.
HeldBy(h, pf, al) ==
    /\ pf.exists
    /\ ParseU32(Trim(pf.content)) = [ok |-> TRUE, val |-> h]
    /\ h \in al

\* The PID file records a PID that is no live process.
IsStale(pf, al) ==
    /\ pf.exists
    /\ ParseU32(Trim(pf.content)).ok
    /\ ParseU32(Trim(pf.content)).val \notin (al \cup ForeignPids)

(***************************************************************************)
(* History variables, updated by every step (b is the process that steps). *)
(* held[p] = h while the PID file has held the PID of the live process h   *)
(* ever since p entered acquire; stale[p] while p's acquire, entered on a  *)
(* stale file, has not been disturbed by another process.  Both are        *)
(* cleared when the process ends.                                          *)
(***************************************************************************)
Track(b, mode) ==
    /\ held' = [p \in Procs |->
          IF p = b /\ mode = "leave" THEN 0
          ELSE IF p = b /\ mode = "enter"
          THEN IF \E h \in Procs : HeldBy(h, pidFile, alive)
               THEN CHOOSE h \in Procs : HeldBy(h, pidFile, alive)
               ELSE 0
          ELSE IF pc[p] \notin InAcquire THEN held[p]
          ELSE IF held[p] # 0 /\ HeldBy(held[p], pidFile', alive')
               THEN held[p] ELSE 0]
    /\ stale' = [p \in Procs |->
          IF p = b /\ mode = "leave" THEN FALSE
          ELSE IF p = b /\ mode = "enter" THEN IsStale(pidFile, alive)
          ELSE IF pc[p] \notin InAcquire \/ p = b THEN stale[p]
          ELSE stale[p] /\ pidFile' = pidFile /\ sockFile' = sockFile]

\* The locals of a process that has ended.
Forget(b) ==
    /\ existing' = [existing EXCEPT ![b] = 0]
    /\ sockArg' = [sockArg EXCEPT ![b] = TRUE]
    /\ fd' = [fd EXCEPT ![b] = 0]
    /\ result' = [result EXCEPT ![b] = [kind |-> "None", pid |-> 0]]
    /\ cleaned' = [cleaned EXCEPT ![b] = {}]
    /\ Track(b, "leave")

PidInit ==
    /\ pidFile \in {AbsentFile}
          \cup {[exists |-> TRUE, ino |-> 1, content |-> c] :
                  c \in {<<"x">>}
                          \cup {FormatPid(p) : p \in ForeignPids}
                          \cup {FormatPid(p) \o <<"\n">> : p \in StalePids}}
    /\ sockFile \in {NoSocket, [exists |-> TRUE, listener |-> 0]}
    /\ alive = Procs
    /\ nextIno = 2
    /\ pc = [p \in Procs |-> "idle"]
    /\ existing = [p \in Procs |-> 0]
    /\ sockArg = [p \in Procs |-> TRUE]
    /\ fd = [p \in Procs |-> 0]
    /\ result = [p \in Procs |-> [kind |-> "None", pid |-> 0]]
    /\ cleaned = [p \in Procs |-> {}]
    /\ held = [p \in Procs |-> 0]
    /\ stale = [p \in Procs |-> FALSE]

---------------------------------------------------------------------------
(***************************************************************************)
(* PidFile::acquire, one action per file-system call.                      *)
(***************************************************************************)
\* acquire: `if path.exists()`.
AcquireExists(b, sp) ==
    /\ pc[b] = "idle"
    /\ sockArg' = [sockArg EXCEPT ![b] = sp]
    /\ pc' = [pc EXCEPT ![b] = IF pidFile.exists THEN "read" ELSE "create"]
    /\ UNCHANGED <<pidFile, sockFile, alive, nextIno, existing, fd, result, cleaned>>
    /\ Track(b, "enter")
    /\ PidOnly

\* acquire: `Self::read_pid(&path)?`.
AcquireReadPid(b) ==
    /\ pc[b] = "read"
    /\ IF read_pid.kind = "Ok"
       THEN /\ existing' = [existing EXCEPT ![b] = read_pid.pid]
            /\ pc' = [pc EXCEPT ![b] = "alive"]
            /\ UNCHANGED result
       ELSE /\ result' = [result EXCEPT ![b] = read_pid]
            /\ pc' = [pc EXCEPT ![b] = "failed"]
            /\ UNCHANGED existing
    /\ UNCHANGED <<pidFile, sockFile, alive, nextIno, sockArg, fd, cleaned>>
    /\ Track(b, "step")
    /\ PidOnly

\* acquire: `if is_process_alive(existing_pid) { return Err(AlreadyRunning) }`.
AcquireCheckAlive(b) ==
    /\ pc[b] = "alive"
    /\ IF is_process_alive(existing[b])
       THEN /\ result' = [result EXCEPT ![b] =
                            [kind |-> "AlreadyRunning", pid |-> existing[b]]]
            /\ pc' = [pc EXCEPT ![b] = "failed"]
       ELSE /\ pc' = [pc EXCEPT ![b] = "rm_pid"]
            /\ UNCHANGED result
    /\ UNCHANGED <<pidFile, sockFile, alive, nextIno, existing, sockArg, fd, cleaned>>
    /\ Track(b, "step")
    /\ PidOnly

\* acquire: `let _ = fs::remove_file(&path)` of the stale PID file.
AcquireRemovePid(b) ==
    /\ pc[b] = "rm_pid"
    /\ pidFile' = AbsentFile
    /\ cleaned' = [cleaned EXCEPT ![b] =
                      IF pidFile.exists THEN @ \cup {"pid"} ELSE @]
    /\ pc' = [pc EXCEPT ![b] = "rm_sock"]
    /\ UNCHANGED <<sockFile, alive, nextIno, existing, sockArg, fd, result>>
    /\ Track(b, "step")
    /\ PidOnly

\* A stale cleanup that forgets the paired socket file.
AcquireKeepSocket(b) ==
    /\ pc[b] = "rm_sock"
    /\ pc' = [pc EXCEPT ![b] = "create"]
    /\ UNCHANGED <<pidFile, sockFile, alive, nextIno, existing, sockArg, fd,
                   result, cleaned>>
    /\ Track(b, "step")
    /\ PidOnly

\* acquire: `if let Some(sock) = socket_path { if sock.exists() { remove } }`.
AcquireRemoveSocket(b) ==
    /\ pc[b] = "rm_sock"
    /\ IF sockArg[b] /\ sockFile.exists
       THEN /\ sockFile' = NoSocket
            /\ cleaned' = [cleaned EXCEPT ![b] = @ \cup {"sock"}]
       ELSE UNCHANGED <<sockFile, cleaned>>
    /\ pc' = [pc EXCEPT ![b] = "create"]
    /\ UNCHANGED <<pidFile, alive, nextIno, existing, sockArg, fd, result>>
    /\ Track(b, "step")
    /\ PidOnly

\* write_pid: `fs::File::create(path)` creates the file or truncates it.
WritePidCreate(b) ==
    /\ pc[b] = "create"
    /\ IF pidFile.exists
       THEN /\ pidFile' = [pidFile EXCEPT !.content = <<>>]
            /\ fd' = [fd EXCEPT ![b] = pidFile.ino]
            /\ UNCHANGED nextIno
       ELSE /\ pidFile' = [exists |-> TRUE, ino |-> nextIno, content |-> <<>>]
            /\ fd' = [fd EXCEPT ![b] = nextIno]
            /\ nextIno' = nextIno + 1
    /\ pc' = [pc EXCEPT ![b] = "write"]
    /\ UNCHANGED <<sockFile, alive, existing, sockArg, result, cleaned>>
    /\ Track(b, "step")
    /\ PidOnly

\* The text of an open file after writing s at offset 0.
WriteAt0(old, s) ==
    IF Len(old) > Len(s) THEN s \o SubSeq(old, Len(s) + 1, Len(old)) ELSE s

\* write_pid: `write!(file, "{}", pid)` through the open descriptor; acquire
\* then returns Ok(PidFile) and its argument socket_path goes out of scope.
WritePidWrite(b) ==
    /\ pc[b] = "write"
    /\ pidFile' = IF pidFile.exists /\ pidFile.ino = fd[b]
                  THEN [pidFile EXCEPT !.content = WriteAt0(@, FormatPid(b))]
                  ELSE pidFile
    /\ result' = [result EXCEPT ![b] = [kind |-> "Ok", pid |-> b]]
    /\ pc' = [pc EXCEPT ![b] = "holding"]
    /\ sockArg' = [sockArg EXCEPT ![b] = TRUE]
    /\ UNCHANGED <<sockFile, alive, nextIno, existing, fd, cleaned>>
    /\ Track(b, "step")
    /\ PidOnly

---------------------------------------------------------------------------
(***************************************************************************)
(* start_with_shutdown after the PID guard was acquired.                   *)
(***************************************************************************)
\* UnixStream::connect(socket_path) succeeds: a live daemon listens on it.
ConnectSucceeds ==
    /\ sockFile.exists
    /\ sockFile.listener \in alive
    /\ pc[sockFile.listener] = "serving"

\* ServerError::AlreadyRunning, as start_with_shutdown returns it.
ServerAlreadyRunning == [kind |-> "ServerAlreadyRunning", pid |-> 0]

\* server::cleanup_stale_socket, called first by start_server: no file, or
\* a file that accepts a connection (AlreadyRunning, the file is left), or
\* a file that does not (it is removed).
CleanupStaleSocket(b) ==
    /\ pc[b] = "holding"
    /\ IF ~sockFile.exists
       THEN /\ pc' = [pc EXCEPT ![b] = "bind"]
            /\ UNCHANGED <<sockFile, result>>
       ELSE IF ConnectSucceeds
       THEN /\ pc' = [pc EXCEPT ![b] = "unwind"]
            /\ result' = [result EXCEPT ![b] = ServerAlreadyRunning]
            /\ UNCHANGED sockFile
       ELSE /\ sockFile' = NoSocket
            /\ pc' = [pc EXCEPT ![b] = "bind"]
            /\ UNCHANGED result
    /\ UNCHANGED <<pidFile, alive, nextIno, existing, sockArg, fd, cleaned>>
    /\ Track(b, "step")
    /\ PidOnly

\* start_server: UnixListener::bind fails when the path exists (BindFailed:
\* the process unwinds from "bind").
BindSocket(b) ==
    /\ pc[b] = "bind"
    /\ IF sockFile.exists
       THEN /\ pc' = [pc EXCEPT ![b] = "unwind"]
            /\ UNCHANGED sockFile
       ELSE /\ sockFile' = [exists |-> TRUE, listener |-> b]
            /\ pc' = [pc EXCEPT ![b] = "serving"]
    /\ UNCHANGED <<pidFile, alive, nextIno, existing, sockArg, fd, result, cleaned>>
    /\ Track(b, "step")
    /\ PidOnly

\* start_server after the graceful shutdown: remove the socket file.
ServerShutdown(b) ==
    /\ pc[b] = "serving"
    /\ sockFile' = NoSocket
    /\ pc' = [pc EXCEPT ![b] = "unwind"]
    /\ UNCHANGED <<pidFile, alive, nextIno, existing, sockArg, fd, result, cleaned>>
    /\ Track(b, "step")
    /\ PidOnly

\* SocketGuard::drop: `if self.path.exists() { remove_file }`.
SocketGuardDrop(b) ==
    /\ pc[b] = "unwind"
    /\ sockFile' = NoSocket
    /\ pc' = [pc EXCEPT ![b] = "drop_pid"]
    /\ UNCHANGED <<pidFile, alive, nextIno, existing, sockArg, fd, result, cleaned>>
    /\ Track(b, "step")
    /\ PidOnly

\* PidFile::drop: `if self.path.exists() { remove_file }`; the process ends.
PidFileDrop(b) ==
    /\ pc[b] = "drop_pid"
    /\ pidFile' = AbsentFile
    /\ alive' = alive \ {b}
    /\ pc' = [pc EXCEPT ![b] = "exited"]
    /\ UNCHANGED <<sockFile, nextIno>>
    /\ Forget(b)
    /\ PidOnly

\* main: acquire returned an error before any guard existed; exit code 1.
ExitFailed(b) ==
    /\ pc[b] = "failed"
    /\ alive' = alive \ {b}
    /\ pc' = [pc EXCEPT ![b] = "exited"]
    /\ UNCHANGED <<pidFile, sockFile, nextIno>>
    /\ Forget(b)
    /\ PidOnly

\* The process is killed (SIGKILL, power loss): no destructor runs.
Crash(b) ==
    /\ pc[b] \notin Gone \cup {"idle"}
    /\ alive' = alive \ {b}
    /\ pc' = [pc EXCEPT ![b] = "crashed"]
    /\ UNCHANGED <<pidFile, sockFile, nextIno>>
    /\ Forget(b)
    /\ PidOnly

PidNext ==
    \E b \in Procs :
        \/ \E sp \in BOOLEAN : AcquireExists(b, sp)
        \/ AcquireReadPid(b)
        \/ AcquireCheckAlive(b)
        \/ AcquireRemovePid(b)
        \/ AcquireRemoveSocket(b)
        \/ WritePidCreate(b)
        \/ WritePidWrite(b)
        \/ CleanupStaleSocket(b)
        \/ BindSocket(b)
        \/ ServerShutdown(b)
        \/ SocketGuardDrop(b)
        \/ PidFileDrop(b)
        \/ ExitFailed(b)
        \/ Crash(b)

---------------------------------------------------------------------------
(***************************************************************************)
(* WorkspaceLocks (mado-daemon server.rs) and the handlers that use it.    *)
(***************************************************************************)
Handlers == 1..NHandlers

Sessions == {"s1", "s2", "s3"}

\* Session.working_dir: s1 and s2 share one workspace.
WorkingDir == [s \in Sessions |-> IF s = "s3" THEN "/q" ELSE "/p"]

Paths == {WorkingDir[s] : s \in Sessions}

LockInit ==
    /\ regOwner = 0
    /\ registry = {}
    /\ nextMutex = 1
    /\ locked = {}
    /\ hpc = [h \in Handlers |-> "idle"]
    /\ hpath = [h \in Handlers |-> ""]
    /\ hmutex = [h \in Handlers |-> 0]

\* resolve_working_dir: the handler of a request on session s.
ResolveWorkingDir(h, s) ==
    /\ hpc[h] = "idle"
    /\ hpath' = [hpath EXCEPT ![h] = WorkingDir[s]]
    /\ hpc' = [hpc EXCEPT ![h] = "lock_map"]
    /\ UNCHANGED <<regOwner, registry, nextMutex, locked, hmutex>>
    /\ LocksOnly

\* acquire: `self.inner.lock().await`.
LockMap(h) ==
    /\ hpc[h] = "lock_map"
    /\ regOwner = 0
    /\ regOwner' = h
    /\ hpc' = [hpc EXCEPT ![h] = "entry"]
    /\ UNCHANGED <<registry, nextMutex, locked, hpath, hmutex>>
    /\ LocksOnly

\* A lookup that inserts a fresh mutex on every call (HashMap::insert).
MapInsertAlways(h) ==
    /\ hpc[h] = "entry"
    /\ regOwner = h
    /\ registry' = {e \in registry : e[1] # hpath[h]} \cup {<<hpath[h], nextMutex>>}
    /\ hmutex' = [hmutex EXCEPT ![h] = nextMutex]
    /\ nextMutex' = nextMutex + 1
    /\ regOwner' = 0
    /\ hpc' = [hpc EXCEPT ![h] = "lock_path"]
    /\ UNCHANGED <<locked, hpath>>
    /\ LocksOnly

\* A lookup whose map guard lives on after the block.
MapEntryHold(h) ==
    /\ hpc[h] = "entry"
    /\ regOwner = h
    /\ IF \E e \in registry : e[1] = hpath[h]
       THEN /\ hmutex' = [hmutex EXCEPT ![h] =
                    (CHOOSE e \in registry : e[1] = hpath[h])[2]]
            /\ UNCHANGED <<registry, nextMutex>>
       ELSE /\ registry' = registry \cup {<<hpath[h], nextMutex>>}
            /\ hmutex' = [hmutex EXCEPT ![h] = nextMutex]
            /\ nextMutex' = nextMutex + 1
    /\ hpc' = [hpc EXCEPT ![h] = "lock_path"]
    /\ UNCHANGED <<regOwner, locked, hpath>>
    /\ LocksOnly

\* acquire: `map.entry(path).or_insert_with(..).clone()`, then the map guard
\* is dropped at the end of the block.
MapEntry(h) ==
    /\ hpc[h] = "entry"
    /\ regOwner = h
    /\ IF \E e \in registry : e[1] = hpath[h]
       THEN /\ hmutex' = [hmutex EXCEPT ![h] =
                    (CHOOSE e \in registry : e[1] = hpath[h])[2]]
            /\ UNCHANGED <<registry, nextMutex>>
       ELSE /\ registry' = registry \cup {<<hpath[h], nextMutex>>}
            /\ hmutex' = [hmutex EXCEPT ![h] = nextMutex]
            /\ nextMutex' = nextMutex + 1
    /\ regOwner' = 0
    /\ hpc' = [hpc EXCEPT ![h] = "lock_path"]
    /\ UNCHANGED <<locked, hpath>>
    /\ LocksOnly

\* acquire: `mutex.lock_owned().await` returns the guard.
LockOwned(h) ==
    /\ hpc[h] = "lock_path"
    /\ hmutex[h] \notin locked
    /\ locked' = locked \cup {hmutex[h]}
    /\ hpc' = [hpc EXCEPT ![h] = "critical"]
    /\ UNCHANGED <<regOwner, registry, nextMutex, hpath, hmutex>>
    /\ LocksOnly

\* The handler returns: `_lock` is dropped after the git operation.
DropLock(h) ==
    /\ hpc[h] = "critical"
    /\ locked' = locked \ {hmutex[h]}
    /\ hmutex' = [hmutex EXCEPT ![h] = 0]
    /\ hpc' = [hpc EXCEPT ![h] = "idle"]
    /\ UNCHANGED <<regOwner, registry, nextMutex, hpath>>
    /\ LocksOnly

LockNext ==
    \E h \in Handlers :
        \/ \E s \in Sessions : ResolveWorkingDir(h, s)
        \/ LockMap(h)
        \/ MapEntry(h)
        \/ LockOwned(h)
        \/ DropLock(h)

---------------------------------------------------------------------------
(***************************************************************************)
(* The state store (kobo-daemon state.rs): DaemonState, save and load.     *)
(* A JSON document is a sequence of tokens.                                *)
(***************************************************************************)
SessionIds == {"a", "b"}

Statuses == {"Active", "Terminated"}

\* The Session records of the model (kobo-core types.rs).
SessionRecords ==
    {[id |-> "a", model |-> "sonnet", status |-> "Active", working_dir |-> <<>>],
     [id |-> "a", model |-> "sonnet", status |-> "Terminated", working_dir |-> <<"/p">>],
     [id |-> "b", model |-> "sonnet", status |-> "Terminated", working_dir |-> <<"/p">>]}

EmptyState == [k \in {} |-> 0]

Str(v) == [t |-> "str", v |-> v]

Null == [t |-> "null", v |-> ""]

LBrace == [t |-> "{", v |-> ""]

RBrace == [t |-> "}", v |-> ""]

\* A naming of SessionStatus that gives every variant one name.
StatusNameFlat(st) == "active"

\* #[serde(rename_all = "snake_case")] of SessionStatus.
StatusName(st) == IF st = "Active" THEN "active" ELSE "terminated"

\* serde of Option<String>: null or the string.
OptionToken(o) == IF o = <<>> THEN <<Null>> ELSE <<Str(o[1])>>

SerializeSession(key, sess) ==
    <<Str(key), Str(sess.id), Str(sess.model), Str(StatusName(sess.status))>>
        \o OptionToken(sess.working_dir)

\* The orders in which a HashMap may iterate over its keys.
KeyOrders(S) ==
    {o \in [1..Cardinality(S) -> S] : \A i, j \in DOMAIN o : i # j => o[i] # o[j]}

RECURSIVE SerializeEntries(_, _)
SerializeEntries(st, order) ==
    IF order = <<>> THEN <<>>
    ELSE SerializeSession(Head(order), st[Head(order)])
            \o SerializeEntries(st, Tail(order))

\* serde_json::to_string_pretty(self).
Serialize(st, order) == <<LBrace>> \o SerializeEntries(st, order) \o <<RBrace>>

DeserializeFailed == [ok |-> FALSE, sessions |-> EmptyState]

\* One map entry: a key and the fields of a Session, in the order of the
\* struct.  save writes every field, so a document of save has them all
\* (#[serde(default)] only matters for documents that lack one).
RECURSIVE DeserializeEntries(_)
DeserializeEntries(toks) ==
    IF toks = <<>> THEN [ok |-> TRUE, sessions |-> EmptyState]
    ELSE IF Len(toks) < 5 THEN DeserializeFailed
    ELSE LET rest == DeserializeEntries(SubSeq(toks, 6, Len(toks)))
             wellFormed ==
                 /\ \A i \in 1..4 : toks[i].t = "str"
                 /\ \E st \in Statuses : StatusName(st) = toks[4].v
                 /\ toks[5].t \in {"str", "null"}
         IN  IF ~wellFormed \/ ~rest.ok THEN DeserializeFailed
             ELSE [ok |-> TRUE,
                   sessions |-> rest.sessions @@
                      (toks[1].v :>
                         [id |-> toks[2].v,
                          model |-> toks[3].v,
                          status |-> CHOOSE st \in Statuses : StatusName(st) = toks[4].v,
                          working_dir |-> IF toks[5].t = "null" THEN <<>>
                                          ELSE <<toks[5].v>>])]

\* serde_json::from_str::<DaemonState>.
Deserialize(toks) ==
    IF Len(toks) < 2 \/ Head(toks) # LBrace \/ toks[Len(toks)] # RBrace
    THEN DeserializeFailed
    ELSE DeserializeEntries(SubSeq(toks, 2, Len(toks) - 1))

\* A load that takes a missing file for an error.
load_strict ==
    IF ~stFile.exists THEN DeserializeFailed
    ELSE Deserialize(stFile.content)

\* DaemonState::load on the state file as it is now.
load ==
    IF ~stFile.exists THEN [ok |-> TRUE, sessions |-> EmptyState]
    ELSE Deserialize(stFile.content)

NoFile == [exists |-> FALSE, content |-> <<>>]

NoLoad == [ok |-> FALSE, sessions |-> EmptyState]

\* A state file of an earlier run, or one that is not JSON.
OldStateFiles ==
    {NoFile,
     [exists |-> TRUE, content |-> <<Str("this is not json")>>],
     [exists |-> TRUE,
      content |-> Serialize("b" :> [id |-> "b", model |-> "sonnet",
                                    status |-> "Terminated", working_dir |-> <<"/p">>],
                            <<"b">>)]}

StateInit ==
    /\ stFile \in OldStateFiles
    /\ tmpFile \in {NoFile, [exists |-> TRUE, content |-> <<LBrace, Str("a")>>]}
    /\ mem = EmptyState
    /\ spc = "down"
    /\ json = <<>>
    /\ loadRes = NoLoad
    /\ before = stFile
    /\ saving = EmptyState
    /\ savedState = [some |-> FALSE, sessions |-> EmptyState]

StateAtRest ==
    /\ StateInit
    /\ stFile = NoFile
    /\ tmpFile = NoFile

\* lifecycle.rs: the daemon starts and loads the state, best effort.
Startup ==
    /\ spc = "down"
    /\ mem' = IF load.ok THEN load.sessions ELSE EmptyState
    /\ spc' = "idle"
    /\ json' = <<>>
    /\ before' = stFile
    /\ saving' = EmptyState
    /\ UNCHANGED <<stFile, tmpFile, loadRes, savedState>>
    /\ StateOnly

\* DaemonState::add_session.
add_session(sess) ==
    /\ spc = "idle"
    /\ mem' = (sess.id :> sess) @@ mem
    /\ UNCHANGED <<stFile, tmpFile, spc, json, loadRes, before, saving, savedState>>
    /\ StateOnly

\* DaemonState::remove_session.
remove_session(id) ==
    /\ spc = "idle"
    /\ id \in DOMAIN mem
    /\ mem' = [k \in DOMAIN mem \ {id} |-> mem[k]]
    /\ UNCHANGED <<stFile, tmpFile, spc, json, loadRes, before, saving, savedState>>
    /\ StateOnly

\* save: serde_json::to_string_pretty(self).
SaveSerialize ==
    /\ spc = "idle"
    /\ \E order \in KeyOrders(DOMAIN mem) : json' = Serialize(mem, order)
    /\ before' = stFile
    /\ saving' = mem
    /\ spc' = "create"
    /\ UNCHANGED <<stFile, tmpFile, mem, loadRes, savedState>>
    /\ StateOnly

\* A save that creates its file at the state path itself.
SaveCreateInPlace ==
    /\ spc = "create"
    /\ stFile' = [exists |-> TRUE, content |-> <<>>]
    /\ tmpFile' = [exists |-> TRUE, content |-> <<>>]
    /\ spc' = "write"
    /\ UNCHANGED <<mem, json, loadRes, before, saving, savedState>>
    /\ StateOnly

\* save: fs::File::create(&tmp_path) creates or truncates the sibling.
SaveCreateTmp ==
    /\ spc = "create"
    /\ tmpFile' = [exists |-> TRUE, content |-> <<>>]
    /\ spc' = "write"
    /\ UNCHANGED <<stFile, mem, json, loadRes, before, saving, savedState>>
    /\ StateOnly

\* save: file.write_all(json.as_bytes()), one write call at a time.
SaveWriteAll(n) ==
    /\ spc = "write"
    /\ LET done == Len(tmpFile.content)
           upto == IF done + n > Len(json) THEN Len(json) ELSE done + n
       IN  /\ tmpFile' = [tmpFile EXCEPT !.content = SubSeq(json, 1, upto)]
           /\ spc' = IF upto = Len(json) THEN "sync" ELSE "write"
    /\ UNCHANGED <<stFile, mem, json, loadRes, before, saving, savedState>>
    /\ StateOnly

\* save: file.sync_all().
SaveSyncAll ==
    /\ spc = "sync"
    /\ spc' = "rename"
    /\ UNCHANGED <<stFile, tmpFile, mem, json, loadRes, before, saving, savedState>>
    /\ StateOnly

\* A save that copies the sibling over the state file and keeps it.
SaveCopy ==
    /\ spc = "rename"
    /\ stFile' = [exists |-> TRUE, content |-> tmpFile.content]
    /\ spc' = "saved"
    /\ savedState' = [some |-> TRUE, sessions |-> mem]
    /\ UNCHANGED <<tmpFile, mem, json, loadRes, before, saving>>
    /\ StateOnly

\* save: fs::rename(&tmp_path, path), then Ok(()).
SaveRename ==
    /\ spc = "rename"
    /\ stFile' = [exists |-> TRUE, content |-> tmpFile.content]
    /\ tmpFile' = NoFile
    /\ spc' = "saved"
    /\ savedState' = [some |-> TRUE, sessions |-> mem]
    /\ UNCHANGED <<mem, json, loadRes, before, saving>>
    /\ StateOnly

\* save: a file system call fails and `?` returns StateError::IoError.
SaveIoError ==
    /\ spc \in {"create", "write", "sync", "rename"}
    /\ spc' = "failed"
    /\ UNCHANGED <<stFile, tmpFile, mem, json, loadRes, before, saving, savedState>>
    /\ StateOnly

\* The caller of save goes on; json is dropped.
SaveReturn ==
    /\ spc \in {"saved", "failed"}
    /\ spc' = "idle"
    /\ json' = <<>>
    /\ before' = stFile
    /\ saving' = EmptyState
    /\ UNCHANGED <<stFile, tmpFile, mem, loadRes, savedState>>
    /\ StateOnly

\* DaemonState::load(path) called on the state file.
Load ==
    /\ spc = "idle"
    /\ loadRes' = load
    /\ spc' = "loaded"
    /\ UNCHANGED <<stFile, tmpFile, mem, json, before, saving, savedState>>
    /\ StateOnly

\* The caller of load goes on.
LoadReturn ==
    /\ spc = "loaded"
    /\ loadRes' = NoLoad
    /\ spc' = "idle"
    /\ UNCHANGED <<stFile, tmpFile, mem, json, before, saving, savedState>>
    /\ StateOnly

\* The daemon is killed at any point; the files stay as they are.
\* json is kept as the document the interrupted save was writing.
StateCrash ==
    /\ spc # "down"
    /\ spc' = "down"
    /\ mem' = EmptyState
    /\ loadRes' = NoLoad
    /\ UNCHANGED <<stFile, tmpFile, json, before, saving, savedState>>
    /\ StateOnly

StateNext ==
    \/ Startup
    \/ \E sess \in SessionRecords : add_session(sess)
    \/ \E id \in SessionIds : remove_session(id)
    \/ SaveSerialize
    \/ SaveCreateTmp
    \/ \E n \in 1..MaxWrite : SaveWriteAll(n)
    \/ SaveSyncAll
    \/ SaveRename
    \/ SaveIoError
    \/ SaveReturn
    \/ Load
    \/ LoadReturn
    \/ StateCrash

---------------------------------------------------------------------------
(***************************************************************************)
(* The chat supervisor (mado-daemon conversation.rs) for one session:      *)
(* send_message, the reader task of each turn, cancel_response.            *)
(***************************************************************************)
Turns == 1..MaxTurns

\* The holder id of cancel_response in sessLock and activeLock.
Canceller == 0 - 1

\* What a child may print: an assistant line with one text block, a
\* content_block_start of a tool use, the result line with its session_id,
\* and a line of another type.  A script without a result line is a child
\* that died early.
Scripts ==
    {<<"tool_use", "assistant", "result">>,
     <<"assistant">>,
     <<"other", "result">>}

\* The session_id the result line of turn t carries.
ResultSid(t) == t

\* The cost_usd a result line carries.
ResultCost == 1

NoSession ==
    [exists |-> FALSE, state |-> "Empty", messages |-> <<>>, claude_session_id |-> 0,
     model |-> "none", total_cost_usd |-> 0]

\* The model of the session's record in DaemonState.
SessionModel == "sonnet"

\* init_session: sessions.entry(id).or_insert_with(..) on the session's
\* slot of the map; a new ConversationSession has the default log, state
\* and totals.
init_session_reset(s, model, claude_session_id) ==
    [NoSession EXCEPT !.exists = TRUE, !.model = model,
                      !.claude_session_id = claude_session_id]

init_session(s, model, claude_session_id) ==
    IF s.exists THEN s
    ELSE [NoSession EXCEPT !.exists = TRUE, !.model = model,
                           !.claude_session_id = claude_session_id]

\* Message { id: Uuid::new_v4(), role, .. }: every construction has an id
\* of its own; made is the place that constructed it, and the content of
\* an assistant message is the number of text blocks accumulated.
NewMessage(t, role, made, content) ==
    [turn |-> t, role |-> role, made |-> made, content |-> content]

\* The message of an event that carries none.
NoMessage == [turn |-> 0, role |-> "none", made |-> "none", content |-> 0]

Event(kind, t, line) ==
    [kind |-> kind, turn |-> t, line |-> line, sid |-> 0, disk |-> FALSE,
     by |-> "reader", message |-> NoMessage]

\* An Idle event, with the history of the moment it is sent: the id the
\* turn's reader has captured, and whether that id has been on disk.
IdleEvent(t, by) ==
    [kind |-> "Idle", turn |-> t, line |-> 0, sid |-> fsid[t],
     disk |-> (fsid[t] \in persisted), by |-> by, message |-> NoMessage]

\* Option<T>: None, or Some(v).
None == <<>>

Some(v) == <<v>>

\* Message.id, a fresh UUID of the construction that made the message.
Id(m) == <<m.turn, m.made>>

\* messages.iter().position(|m| m.id == *bid): the first place, from one.
position(messages, bid) ==
    LET found == {i \in 1..Len(messages) : Id(messages[i]) = bid}
    IN  IF found = {} THEN None
        ELSE Some(CHOOSE i \in found : \A k \in found : i <= k)

\* usize::saturating_sub
saturating_sub(a, b) == IF a >= b THEN a - b ELSE 0

\* A get_messages that keeps the first `limit` messages.
get_messages_head(messages, limit, before_id) ==
    LET pos == IF before_id = None THEN None ELSE position(messages, before_id[1])
        filtered == IF pos = None THEN messages ELSE SubSeq(messages, 1, pos[1] - 1)
    IN  IF limit = None THEN filtered
        ELSE SubSeq(filtered, 1, Len(filtered) - saturating_sub(Len(filtered), limit[1]))

\* get_messages(session_id, limit, before_id) on the messages of the
\* session: the before_id filter, then the limit.
get_messages(messages, limit, before_id) ==
    LET pos == IF before_id = None THEN None ELSE position(messages, before_id[1])
        filtered == IF pos = None THEN messages ELSE SubSeq(messages, 1, pos[1] - 1)
    IN  IF limit = None THEN filtered
        ELSE LET start == saturating_sub(Len(filtered), limit[1])
             IN  SubSeq(filtered, start + 1, Len(filtered))

\* No get-messages request has been answered.
NoPage == [op |-> "none", limit |-> None, before_id |-> None, messages |-> <<>>]

PageAtRest == gmres = NoPage

ChatInit ==
    /\ sessions = NoSession
    /\ active_processes = 0
    /\ sessLock = 0
    /\ activeLock = 0
    /\ dsid = 0
    /\ diskSid = 0
    /\ stream = <<>>
    /\ tpc = [t \in Turns |-> "idle"]
    /\ tres = [t \in Turns |-> "none"]
    /\ script = [t \in Turns |-> <<>>]
    /\ eof = [t \in Turns |-> 0]
    /\ rpos = [t \in Turns |-> 0]
    /\ rpc = [t \in Turns |-> "idle"]
    /\ acc = [t \in Turns |-> 0]
    /\ fsid = [t \in Turns |-> 0]
    /\ cpc = "idle"
    /\ ctarget = 0
    /\ cres = "none"
    /\ ncancel = 0
    /\ persisted = {}
    /\ stateLock = 0

\* send_message_handler: init_session creates the chat session when the
\* session has none, with the claude_session_id of the daemon's record.
SendInit(t) ==
    /\ tpc[t] = "idle"
    /\ t > 1 => tpc[t - 1] # "idle"
    /\ sessLock = 0
    /\ sessions' = init_session(sessions, SessionModel, dsid)
    /\ tpc' = [tpc EXCEPT ![t] = "read"]
    /\ UNCHANGED <<stateLock, active_processes, sessLock, activeLock, dsid,
                   diskSid, stream,
                   tres, script, eof, rpos, rpc, acc, fsid, cpc, ctarget, cres,
                   ncancel, persisted>>
    /\ ChatOnly

\* get_messages_handler: init_session the same way, then get_messages;
\* the response is DaemonResponse::Messages.
get_messages_handler(limit, before_id) ==
    /\ sessLock = 0
    /\ sessions' = init_session(sessions, SessionModel, dsid)
    /\ gmres' = [op |-> "Messages", limit |-> limit, before_id |-> before_id,
                 messages |-> get_messages(sessions'.messages, limit, before_id)]
    /\ UNCHANGED <<stateLock, active_processes, sessLock, activeLock, dsid,
                   diskSid, stream, tpc, tres, script, eof, rpos, rpc, acc, fsid,
                   cpc, ctarget, cres, ncancel, persisted>>
    /\ UNCHANGED <<pidVars, lockVars, stateVars, sessVars, streamVars, clientVars,
                   gitVars>>

\* send_message: read the session, or return SessionNotFound.
SendRead(t) ==
    /\ tpc[t] = "read"
    /\ sessLock = 0
    /\ IF sessions.exists
       THEN tpc' = [tpc EXCEPT ![t] = "push"] /\ UNCHANGED tres
       ELSE /\ tpc' = [tpc EXCEPT ![t] = "done"]
            /\ tres' = [tres EXCEPT ![t] = "SessionNotFound"]
    /\ UNCHANGED <<stateLock, sessions, active_processes, sessLock, activeLock,
                   dsid, diskSid,
                   stream, script, eof, rpos, rpc, acc, fsid, cpc, ctarget, cres,
                   ncancel, persisted>>
    /\ ChatOnly

\* send_message: store the user message and set the state to Streaming.
SendPush(t) ==
    /\ tpc[t] = "push"
    /\ sessLock = 0
    /\ sessions' = IF sessions.exists
                   THEN [sessions EXCEPT
                           !.messages = Append(@, NewMessage(t, "User", "send", 0)),
                           !.state = "Streaming"]
                   ELSE sessions
    /\ tpc' = [tpc EXCEPT ![t] = "spawn"]
    /\ UNCHANGED <<stateLock, active_processes, sessLock, activeLock, dsid,
                   diskSid, stream,
                   tres, script, eof, rpos, rpc, acc, fsid, cpc, ctarget, cres,
                   ncancel, persisted>>
    /\ ChatOnly

\* send_message: find_claude_binary or spawn fails and `?` returns.
SendSpawnFails(t, err) ==
    /\ tpc[t] = "spawn"
    /\ tpc' = [tpc EXCEPT ![t] = "done"]
    /\ tres' = [tres EXCEPT ![t] = err]
    /\ UNCHANGED <<stateLock, sessions, active_processes, sessLock, activeLock,
                   dsid, diskSid,
                   stream, script, eof, rpos, rpc, acc, fsid, cpc, ctarget, cres,
                   ncancel, persisted>>
    /\ ChatOnly

\* send_message: the child is spawned; sc is what it is going to print.
SendSpawn(t, sc) ==
    /\ tpc[t] = "spawn"
    /\ script' = [script EXCEPT ![t] = sc]
    /\ eof' = [eof EXCEPT ![t] = Len(sc)]
    /\ tpc' = [tpc EXCEPT ![t] = "store"]
    /\ UNCHANGED <<stateLock, sessions, active_processes, sessLock, activeLock,
                   dsid, diskSid,
                   stream, tres, rpos, rpc, acc, fsid, cpc, ctarget, cres,
                   ncancel, persisted>>
    /\ ChatOnly

\* send_message: active.insert(session_id, child) replaces the entry.
SendStore(t) ==
    /\ tpc[t] = "store"
    /\ activeLock = 0
    /\ active_processes' = t
    /\ tpc' = [tpc EXCEPT ![t] = "sender"]
    /\ UNCHANGED <<stateLock, sessions, sessLock, activeLock, dsid, diskSid,
                   stream, tres,
                   script, eof, rpos, rpc, acc, fsid, cpc, ctarget, cres,
                   ncancel, persisted>>
    /\ ChatOnly

\* send_message: get_sender, spawn the reader task, return Ok(user_msg_id).
SendStartReader(t) ==
    /\ tpc[t] = "sender"
    /\ rpc' = [rpc EXCEPT ![t] = "read"]
    /\ tpc' = [tpc EXCEPT ![t] = "done"]
    /\ tres' = [tres EXCEPT ![t] = "Ok"]
    /\ UNCHANGED <<stateLock, sessions, active_processes, sessLock, activeLock,
                   dsid, diskSid,
                   stream, script, eof, rpos, acc, fsid, cpc, ctarget, cres,
                   ncancel, persisted>>
    /\ ChatOnly

\* The events the reader sends for line n of the script of turn t.
LineEvents(t, n) ==
    LET line == script[t][n]
    IN  IF line = "assistant" THEN <<Event("TextDelta", t, n)>>
        ELSE IF line = "tool_use" THEN <<Event("ToolUseStart", t, n)>>
        ELSE IF line = "result"
             THEN <<[Event("MessageComplete", t, n) EXCEPT
                       !.message = NewMessage(t, "Assistant", "result", acc[t])]>>
        ELSE <<>>

\* reader task: one line of the child's output.
ReaderLine(t) ==
    /\ rpc[t] = "read"
    /\ rpos[t] < eof[t]
    /\ LET n == rpos[t] + 1
           line == script[t][n]
       IN  /\ rpos' = [rpos EXCEPT ![t] = n]
           /\ acc' = [acc EXCEPT ![t] = IF line = "assistant" THEN @ + 1 ELSE @]
           /\ fsid' = [fsid EXCEPT ![t] = IF line = "result" THEN ResultSid(t) ELSE @]
           /\ stream' = stream \o LineEvents(t, n)
    /\ UNCHANGED <<stateLock, sessions, active_processes, sessLock, activeLock,
                   dsid, diskSid,
                   tpc, tres, script, eof, rpc, cpc, ctarget, cres, ncancel, persisted>>
    /\ ChatOnly

\* A cleanup that assigns the id of the turn, captured or not.
ReaderUpdateSessionAssign(t) ==
    /\ rpc[t] = "read"
    /\ rpos[t] = eof[t]
    /\ sessLock = 0
    /\ sessLock' = t
    /\ sessions' =
          IF ~sessions.exists THEN sessions
          ELSE [sessions EXCEPT
                  !.messages = IF acc[t] > 0
                               THEN Append(@, NewMessage(t, "Assistant", "cleanup", acc[t]))
                               ELSE @,
                  !.claude_session_id = fsid[t],
                  !.total_cost_usd = IF fsid[t] # 0 THEN @ + ResultCost ELSE @,
                  !.state = "Idle"]
    /\ rpc' = [rpc EXCEPT ![t] = IF fsid[t] # 0 THEN "lock_state" ELSE "lock_active"]
    /\ UNCHANGED <<stateLock, active_processes, activeLock, dsid, diskSid,
                   stream, tpc, tres,
                   script, eof, rpos, acc, fsid, cpc, ctarget, cres, ncancel, persisted>>
    /\ ChatOnly

\* reader task after EOF: sessions.write(), append the assistant message
\* when text was accumulated, set the id and the state Idle.  The guard is
\* kept to the end of the block.
ReaderUpdateSession(t) ==
    /\ rpc[t] = "read"
    /\ rpos[t] = eof[t]
    /\ sessLock = 0
    /\ sessLock' = t
    /\ sessions' =
          IF ~sessions.exists THEN sessions
          ELSE [sessions EXCEPT
                  !.messages = IF acc[t] > 0
                               THEN Append(@, NewMessage(t, "Assistant", "cleanup", acc[t]))
                               ELSE @,
                  !.claude_session_id = IF fsid[t] # 0 THEN fsid[t] ELSE @,
                  !.total_cost_usd = IF fsid[t] # 0 THEN @ + ResultCost ELSE @,
                  !.state = "Idle"]
    /\ rpc' = [rpc EXCEPT ![t] = IF fsid[t] # 0 THEN "lock_state" ELSE "lock_active"]
    /\ UNCHANGED <<stateLock, active_processes, activeLock, dsid, diskSid,
                   stream, tpc, tres,
                   script, eof, rpos, acc, fsid, cpc, ctarget, cres, ncancel, persisted>>
    /\ ChatOnly

\* reader task: daemon_state.lock(), set the id of the session's record.
ReaderLockState(t) ==
    /\ rpc[t] = "lock_state"
    /\ stateLock = 0
    /\ stateLock' = t
    /\ dsid' = fsid[t]
    /\ rpc' = [rpc EXCEPT ![t] = "persist"]
    /\ UNCHANGED <<sessions, active_processes, sessLock, activeLock, diskSid,
                   stream, tpc, tres, script, eof, rpos, acc, fsid, cpc, ctarget,
                   cres, ncancel, persisted>>
    /\ ChatOnly

\* reader task: daemon_state.save(path) writes the state file, a failed
\* save is logged and nothing else; the guard of the DaemonState mutex is
\* dropped after it.
ReaderPersist(t, saved) ==
    /\ rpc[t] = "persist"
    /\ diskSid' = IF saved THEN fsid[t] ELSE diskSid
    /\ persisted' = IF saved THEN persisted \cup {fsid[t]} ELSE persisted
    /\ stateLock' = 0
    /\ rpc' = [rpc EXCEPT ![t] = "lock_active"]
    /\ UNCHANGED <<sessions, active_processes, sessLock, activeLock, dsid, stream,
                   tpc, tres, script, eof, rpos, acc, fsid, cpc, ctarget, cres,
                   ncancel>>
    /\ ChatOnly

\* reader task: active.remove(session_id); both guards are dropped.
ReaderRemoveActive(t) ==
    /\ rpc[t] = "lock_active"
    /\ activeLock = 0
    /\ active_processes' = 0
    /\ sessLock' = 0
    /\ rpc' = [rpc EXCEPT ![t] = "emit"]
    /\ UNCHANGED <<stateLock, sessions, activeLock, dsid, diskSid, stream, tpc,
                   tres, script,
                   eof, rpos, acc, fsid, cpc, ctarget, cres, ncancel, persisted>>
    /\ ChatOnly

\* reader task: tx.send(StreamEvent::Idle).
ReaderIdle(t) ==
    /\ rpc[t] = "emit"
    /\ stream' = Append(stream, IdleEvent(t, "reader"))
    /\ rpc' = [rpc EXCEPT ![t] = "done"]
    /\ UNCHANGED <<stateLock, sessions, active_processes, sessLock, activeLock,
                   dsid, diskSid,
                   tpc, tres, script, eof, rpos, acc, fsid, cpc, ctarget, cres,
                   ncancel, persisted>>
    /\ ChatOnly

\* cancel_response: no handle in the table.
CancelNoActive ==
    /\ cpc = "idle"
    /\ ncancel < MaxCancels
    /\ activeLock = 0
    /\ active_processes = 0
    /\ cres' = "NoActiveResponse"
    /\ ncancel' = ncancel + 1
    /\ UNCHANGED <<stateLock, sessions, active_processes, sessLock, activeLock,
                   dsid, diskSid,
                   stream, tpc, tres, script, eof, rpos, rpc, acc, fsid, cpc,
                   ctarget, persisted>>
    /\ ChatOnly

\* cancel_response: take the handle out of the table and kill the child;
\* the pipe closes after the n lines the child had printed.
CancelKill ==
    /\ cpc = "idle"
    /\ ncancel < MaxCancels
    /\ activeLock = 0
    /\ active_processes # 0
    /\ activeLock' = Canceller
    /\ ctarget' = active_processes
    /\ active_processes' = 0
    /\ \E n \in rpos[active_processes]..eof[active_processes] :
          eof' = [eof EXCEPT ![active_processes] = n]
    /\ cres' = "none"
    /\ cpc' = "lock_sessions"
    /\ ncancel' = ncancel + 1
    /\ UNCHANGED <<stateLock, sessions, sessLock, dsid, diskSid, stream, tpc,
                   tres, script,
                   rpos, rpc, acc, fsid, persisted>>
    /\ ChatOnly

\* cancel_response: sessions.write(), state Idle, get_sender, send Idle,
\* Ok(()); both guards are dropped.
CancelSetIdle ==
    /\ cpc = "lock_sessions"
    /\ sessLock = 0
    /\ sessions' = IF sessions.exists THEN [sessions EXCEPT !.state = "Idle"]
                   ELSE sessions
    /\ stream' = Append(stream, IdleEvent(ctarget, "cancel"))
    /\ activeLock' = 0
    /\ cres' = "Ok"
    /\ cpc' = "idle"
    /\ UNCHANGED <<stateLock, active_processes, sessLock, dsid, diskSid, tpc,
                   tres, script,
                   eof, rpos, rpc, acc, fsid, ctarget, ncancel, persisted>>
    /\ ChatOnly

ChatNext ==
    \/ \E t \in Turns :
          \/ SendInit(t)
          \/ SendRead(t)
          \/ SendPush(t)
          \/ \E err \in {"ClaudeNotFound", "SpawnFailed"} : SendSpawnFails(t, err)
          \/ \E sc \in Scripts : SendSpawn(t, sc)
          \/ SendStore(t)
          \/ SendStartReader(t)
          \/ ReaderLine(t)
          \/ ReaderUpdateSession(t)
          \/ ReaderLockState(t)
          \/ \E saved \in BOOLEAN : ReaderPersist(t, saved)
          \/ ReaderRemoveActive(t)
          \/ ReaderIdle(t)
    \/ get_messages_handler(None, None)
    \/ CancelNoActive
    \/ CancelKill
    \/ CancelSetIdle

---------------------------------------------------------------------------
(***************************************************************************)
(* The session manager (mado-daemon session.rs and server.rs) over the     *)
(* PTY supervisor (process.rs), the chat supervisor (conversation.rs) and  *)
(* the state store, in a daemon that starts and shuts down (lifecycle.rs). *)
(* The session map is mem and the state file is stFile.                    *)
(***************************************************************************)
\* Positions of the daemon in which the HTTP server answers requests.
Serving == {"serving", "flushing"}

NoResponse == [op |-> "none", id |-> "", res |-> "none", known |-> FALSE]

NoTrigger == [some |-> FALSE, saved |-> FALSE, sessions |-> EmptyState]

\* DaemonState::load of a given file.
LoadFile(f) ==
    IF ~f.exists THEN [ok |-> TRUE, sessions |-> EmptyState]
    ELSE Deserialize(f.content)

\* HashMap::remove on the session map.
Without(st, id) == [k \in DOMAIN st \ {id} |-> st[k]]

\* The Session that create_session builds.
NewSession(id, model) ==
    [id |-> id, model |-> model, status |-> "Active", working_dir |-> <<"/p">>]

\* The model names a request may carry; "gpt" is not one of VALID_MODELS.
Models == {"sonnet", "gpt"}

VALID_MODELS == {"opus", "sonnet", "haiku"}

\* A check that lets every model name pass.
valid_any(model) == TRUE

\* ProcessManager::create, first check: VALID_MODELS.contains(&model).
valid(model) == model \in VALID_MODELS

\* Uuid::new_v4(): an id that occurs nowhere, in memory or on disk.
FreshId(id) ==
    /\ id \notin DOMAIN mem
    /\ id \notin DOMAIN save_state
    /\ id \notin processes \cup ptyChildren
    /\ id \notin conversations \cup turnChildren \cup event_senders
    /\ id \notin DOMAIN LoadFile(stFile).sessions

SessionInit ==
    /\ daemon = "down"
    /\ save_state = EmptyState
    /\ processes = {}
    /\ ptyChildren = {}
    /\ conversations = {}
    /\ turnChildren = {}
    /\ event_senders = {}
    /\ response = NoResponse
    /\ liveAtTrigger = NoTrigger

\* start_with_shutdown, steps 5 and 6: load the state best effort, keep a
\* clone of it for the shutdown task, and start the server.  The server of
\* kobo-daemon builds its session manager over DaemonState::default(); the
\* one of mado-daemon is handed the state of its caller.
DaemonStart ==
    /\ daemon = "down"
    /\ LET loaded == IF load.ok THEN load.sessions ELSE EmptyState
       IN  /\ save_state' = loaded
           /\ mem' \in {EmptyState, loaded}
    /\ daemon' = "serving"
    /\ response' = NoResponse
    /\ liveAtTrigger' = NoTrigger
    /\ UNCHANGED <<stFile, processes, ptyChildren, conversations, turnChildren,
                   event_senders>>
    /\ SessionOnly

\* create_session_handler over SessionManager::create_session: a fresh id,
\* ProcessManager::create (which may fail: nothing is added then), and
\* DaemonState::add_session.  Nothing is written to the state file.
create_session(id, model, spawned) ==
    /\ daemon \in Serving
    /\ FreshId(id)
    /\ IF ~valid(model)
       THEN /\ UNCHANGED <<processes, ptyChildren, mem>>
            /\ response' = [op |-> "create", id |-> id, res |-> "InvalidModel",
                            known |-> FALSE]
       ELSE IF spawned
       THEN /\ processes' = processes \cup {id}
            /\ ptyChildren' = ptyChildren \cup {id}
            /\ mem' = (id :> NewSession(id, model)) @@ mem
            /\ response' = [op |-> "create", id |-> id, res |-> "session",
                            known |-> FALSE]
       ELSE /\ UNCHANGED <<processes, ptyChildren, mem>>
            /\ response' = [op |-> "create", id |-> id, res |-> "error",
                            known |-> FALSE]
    /\ UNCHANGED <<stFile, daemon, save_state, conversations, turnChildren,
                   event_senders, liveAtTrigger>>
    /\ SessionOnly

\* A has_process that answers yes for every id.
has_process_always(id) == TRUE

\* ProcessManager::has_process.
has_process(id) == id \in processes

\* ProcessManager::destroy: remove the entry and kill the child; an id
\* without entry is SessionNotFound.
destroy(id) ==
    IF id \in processes
    THEN [ok |-> TRUE, processes |-> processes \ {id},
          children |-> ptyChildren \ {id}]
    ELSE [ok |-> FALSE, processes |-> processes, children |-> ptyChildren]

\* SessionManager::destroy_session: `if pm.has_process(id) { pm.destroy(id)? }`
\* and then DaemonState::remove_session.
destroy_session(id) ==
    LET d == IF has_process(id) THEN destroy(id)
             ELSE [ok |-> TRUE, processes |-> processes, children |-> ptyChildren]
    IN  [ok |-> d.ok, processes |-> d.processes, children |-> d.children,
         sessions |-> IF d.ok THEN Without(mem, id) ELSE mem]

\* destroy_session_handler: Ok is answered with Pong, Err with Error.  The
\* chat supervisor is not called and nothing is written to the state file.
destroy_session_handler(id) ==
    /\ daemon \in Serving
    /\ LET r == destroy_session(id)
       IN  /\ processes' = r.processes
           /\ ptyChildren' = r.children
           /\ mem' = r.sessions
           /\ response' = [op |-> "destroy", id |-> id,
                           res |-> IF r.ok THEN "pong" ELSE "error",
                           known |-> id \in DOMAIN mem]
    /\ UNCHANGED <<stFile, daemon, save_state, conversations, turnChildren,
                   event_senders, liveAtTrigger>>
    /\ SessionOnly

\* read_pty_output: the child exits, read returns EOF or an error, and the
\* reader thread ends.  The process table and the session map stay as they
\* are.
PtyChildExit(id) ==
    /\ daemon \in Serving
    /\ id \in ptyChildren
    /\ ptyChildren' = ptyChildren \ {id}
    /\ UNCHANGED <<stFile, mem, daemon, save_state, processes, conversations,
                   turnChildren, event_senders, response, liveAtTrigger>>
    /\ SessionOnly

\* send_message_handler: a session of the map gets its chat record
\* (init_session), its channel (get_sender) and a per-turn child.
send_message(id) ==
    /\ daemon \in Serving
    /\ id \in DOMAIN mem
    /\ id \notin turnChildren
    /\ conversations' = conversations \cup {id}
    /\ event_senders' = event_senders \cup {id}
    /\ turnChildren' = turnChildren \cup {id}
    /\ response' = [op |-> "send", id |-> id, res |-> "accepted", known |-> TRUE]
    /\ UNCHANGED <<stFile, mem, daemon, save_state, processes, ptyChildren,
                   liveAtTrigger>>
    /\ SessionOnly

\* The reader task of a turn after EOF: when the turn reported a session id
\* and the session is in the map, the map is saved (an error is logged);
\* then the child leaves the active-process table.
TurnEnds(id, reported, saved) ==
    /\ daemon \in Serving
    /\ id \in turnChildren
    /\ turnChildren' = turnChildren \ {id}
    /\ IF reported /\ saved /\ id \in DOMAIN mem
       THEN \E order \in KeyOrders(DOMAIN mem) :
               stFile' = [exists |-> TRUE, content |-> Serialize(mem, order)]
       ELSE UNCHANGED stFile
    /\ UNCHANGED <<mem, daemon, save_state, processes, ptyChildren, conversations,
                   event_senders, response, liveAtTrigger>>
    /\ SessionOnly

\* The shutdown signal fires: the spawned task of start_with_shutdown wakes.
ShutdownSignal ==
    /\ daemon = "serving"
    /\ daemon' = "flushing"
    /\ liveAtTrigger' = [some |-> TRUE, saved |-> FALSE, sessions |-> mem]
    /\ UNCHANGED <<stFile, mem, save_state, processes, ptyChildren, conversations,
                   turnChildren, event_senders, response>>
    /\ SessionOnly

\* The spawned task: save_state.save(&save_state_path), an error is logged,
\* then shutdown_tx.send(()).
ShutdownSave(saved) ==
    /\ daemon = "flushing"
    /\ IF saved
       THEN \E order \in KeyOrders(DOMAIN save_state) :
               stFile' = [exists |-> TRUE, content |-> Serialize(save_state, order)]
       ELSE UNCHANGED stFile
    /\ liveAtTrigger' = [liveAtTrigger EXCEPT !.saved = saved]
    /\ daemon' = "draining"
    /\ UNCHANGED <<mem, save_state, processes, ptyChildren, conversations,
                   turnChildren, event_senders, response>>
    /\ SessionOnly

\* start_server returns and so does start_with_shutdown: the process ends,
\* and with it its managers and the children they held.
DaemonExit ==
    /\ daemon = "draining"
    /\ daemon' = "down"
    /\ mem' = EmptyState
    /\ save_state' = EmptyState
    /\ processes' = {}
    /\ ptyChildren' = {}
    /\ conversations' = {}
    /\ turnChildren' = {}
    /\ event_senders' = {}
    /\ UNCHANGED <<stFile, response, liveAtTrigger>>
    /\ SessionOnly

SessionNext ==
    \/ DaemonStart
    \/ \E id \in SessionIds :
          \/ \E model \in Models : \E spawned \in BOOLEAN :
                create_session(id, model, spawned)
          \/ destroy_session_handler(id)
          \/ PtyChildExit(id)
          \/ send_message(id)
          \/ \E reported, saved \in BOOLEAN : TurnEnds(id, reported, saved)
    \/ ShutdownSignal
    \/ \E saved \in BOOLEAN : ShutdownSave(saved)
    \/ DaemonExit

---------------------------------------------------------------------------
(***************************************************************************)
(* Event fan-out (mado-daemon server.rs, conversation.rs; process.rs): the *)
(* broadcast channel of a session's PTY output and the one of its chat     *)
(* events, their subscribers, and the SSE events each subscriber is sent.  *)
(* The items of a channel are numbered 1, 2, .. in the order of sending;   *)
(* a channel retains the last Capacity items.                              *)
(***************************************************************************)
Subs == 1..NSubs

\* The session ids of requests: "a" is a session of the daemon (it has a
\* process entry and is in the session map), "x" is no session.
StreamIds == {"a", "x"}

Existing == {"a"}

ChanKeys == {"output", "message"} \X StreamIds

\* broadcast::channel(64) of ProcessManager::create, broadcast::channel(256)
\* of the chat supervisor; scaled to OutputCapacity and EventCapacity.
Capacity(kind) == IF kind = "output" THEN OutputCapacity ELSE EventCapacity

\* The synthetic first event of a stream.
Synthetic(kind) ==
    IF kind = "output" THEN [event |-> "started", data |-> <<"connected">>]
    ELSE [event |-> "connected", data |-> <<"connected">>]

ErrorEvent == [event |-> "error", data |-> <<"session_not_found">>]

\* The SSE event of a channel item: base64 of the bytes, or the JSON of the
\* chat event.
ItemEvent(kind, i) ==
    IF kind = "output" THEN [event |-> "output", data |-> <<"base64", i>>]
    ELSE [event |-> "message", data |-> <<"json", i>>]

NoReceiver == [st |-> "idle", key |-> <<"", "">>, start |-> 0, next |-> 0, missed |-> 0]

\* The receivers of a channel that are alive.
Receivers(key) == {s \in Subs : rx[s].st = "open" /\ rx[s].key = key}

StreamInit ==
    /\ tx = [key \in ChanKeys |->
                [made |-> key[1] = "output" /\ key[2] \in Existing, tail |-> 0]]
    /\ rx = [s \in Subs |-> NoReceiver]
    /\ sse = [s \in Subs |-> <<>>]

\* A receive that, when lagged, goes on at the newest item.
recv_newest(next, tail, cap) ==
    IF next > tail THEN [kind |-> "empty", next |-> next, n |-> 0]
    ELSE IF tail - next >= cap
    THEN [kind |-> "lagged", next |-> tail, n |-> tail - next]
    ELSE [kind |-> "item", next |-> next + 1, n |-> 0]

\* broadcast::Receiver::recv with the cursor at item `next` of a channel
\* that has sent `tail` items: nothing to receive, or the item, or, when
\* the item has been overwritten, Lagged(n) with the cursor moved to the
\* oldest retained item.
recv(next, tail, cap) ==
    IF next > tail THEN [kind |-> "empty", next |-> next, n |-> 0]
    ELSE IF tail - next >= cap
    THEN [kind |-> "lagged", next |-> tail - cap + 1, n |-> tail - cap + 1 - next]
    ELSE [kind |-> "item", next |-> next + 1, n |-> 0]

\* A filter that turns the Lagged marker into an event.
filter_map_keep(kind, item, r) ==
    IF r.kind = "item" THEN <<ItemEvent(kind, item)>>
    ELSE <<[event |-> "lagged", data |-> <<"lagged", r.n>>]>>

\* The filter_map of both handlers: Ok(item) becomes an SSE event, Err(_)
\* (the Lagged marker) becomes nothing.
filter_map(kind, item, r) ==
    IF r.kind = "item" THEN <<ItemEvent(kind, item)>> ELSE <<>>

\* broadcast::Sender::send as read_pty_output and the chat reader call it
\* (`let _ = tx.send(..)`): with no receiver the item is dropped, else it is
\* stored, overwriting the oldest when the channel is full.
Send(key) ==
    /\ tx[key].made
    /\ key[2] \in Existing
    /\ tx[key].tail < MaxItems
    /\ tx' = [tx EXCEPT ![key].tail = IF Receivers(key) = {} THEN @ ELSE @ + 1]
    /\ UNCHANGED <<rx, sse>>
    /\ StreamOnly

\* ConversationManager::get_sender, called by send_message for a session of
\* the session map: the channel is created when there is none.
get_sender(id) ==
    /\ id \in Existing
    /\ ~tx[<<"message", id>>].made
    /\ tx' = [tx EXCEPT ![<<"message", id>>].made = TRUE]
    /\ UNCHANGED <<rx, sse>>
    /\ StreamOnly

\* output_handler: ProcessManager::subscribe_output is SessionNotFound for
\* an id without process entry, and the stream is the one error event;
\* else the stream is `started` followed by the filtered receiver.
output_handler(s, id) ==
    /\ rx[s].st = "idle"
    /\ LET key == <<"output", id>>
       IN  IF tx[key].made
           THEN /\ rx' = [rx EXCEPT ![s] =
                            [st |-> "open", key |-> key, start |-> tx[key].tail,
                             next |-> tx[key].tail + 1, missed |-> 0]]
                /\ sse' = [sse EXCEPT ![s] = <<Synthetic("output")>>]
           ELSE /\ rx' = [rx EXCEPT ![s] =
                            [st |-> "ended", key |-> key, start |-> 0,
                             next |-> 0, missed |-> 0]]
                /\ sse' = [sse EXCEPT ![s] = <<ErrorEvent>>]
    /\ UNCHANGED tx
    /\ StreamOnly

\* stream_events_handler: ConversationManager::subscribe takes a receiver
\* of the id's channel and creates the channel when there is none, for any
\* id; the stream is `connected` followed by the filtered receiver.
stream_events_handler(s, id) ==
    /\ rx[s].st = "idle"
    /\ LET key == <<"message", id>>
       IN  /\ tx' = [tx EXCEPT ![key].made = TRUE]
           /\ rx' = [rx EXCEPT ![s] =
                       [st |-> "open", key |-> key, start |-> tx[key].tail,
                        next |-> tx[key].tail + 1, missed |-> 0]]
           /\ sse' = [sse EXCEPT ![s] = <<Synthetic("message")>>]
    /\ StreamOnly

\* The stream of a subscriber is polled: BroadcastStream over recv, then
\* the handler's filter_map.
Poll(s) ==
    /\ rx[s].st = "open"
    /\ LET kind == rx[s].key[1]
           r == recv(rx[s].next, tx[rx[s].key].tail, Capacity(kind))
       IN  /\ r.kind # "empty"
           /\ rx' = [rx EXCEPT ![s].next = r.next, ![s].missed = @ + r.n]
           /\ sse' = [sse EXCEPT ![s] = @ \o filter_map(kind, rx[s].next, r)]
    /\ UNCHANGED tx
    /\ StreamOnly

StreamNext ==
    \/ \E key \in ChanKeys : Send(key)
    \/ \E id \in StreamIds : get_sender(id)
    \/ \E s \in Subs : \E id \in StreamIds :
          \/ output_handler(s, id)
          \/ stream_events_handler(s, id)
    \/ \E s \in Subs : Poll(s)

---------------------------------------------------------------------------
(***************************************************************************)
(* The client's bootstrap: DaemonClient::ensure_daemon_running             *)
(* (mado-core/src/client.rs).  Time is counted in poll intervals: the      *)
(* code's budget is 5 s at 100 ms, the model's is PollTimeout intervals.   *)
(***************************************************************************)
PollTimeout == 3

NoOutcome == [kind |-> "none"]

ClientOk == [kind |-> "Ok"]

StartFailed == [kind |-> "StartFailed"]

StartTimeout == [kind |-> "StartTimeout"]

\* What listens on the socket path: nothing (connect fails), a daemon that
\* answers, or a process that accepts the connection and never answers.
Listeners == {"none", "serving", "silent"}

\* The PID file next to the socket, as the client reads it.
ClientPidFiles == {"absent", "garbage", "dead", "live"}

ClientInit ==
    /\ epc = "call"
    /\ eres = NoOutcome
    /\ elapsed = 0
    /\ pong = FALSE
    /\ launched = FALSE
    /\ srv \in Listeners
    /\ cpid \in ClientPidFiles

ClientAtRest ==
    /\ ClientInit
    /\ srv = "none"
    /\ cpid = "absent"

\* get("/ping"): connect, handshake, send the request.  Without a listener the
\* connect fails at once; with one the call awaits the response.
get(from, waiting, failed) ==
    /\ epc = from
    /\ epc' = IF srv = "none" THEN failed ELSE waiting
    /\ pong' = FALSE
    /\ UNCHANGED <<eres, elapsed, launched, srv, cpid>>
    /\ ClientOnly

\* The response arrives: only a daemon that answers sends one, and nothing in
\* get, ping or is_alive ends the wait otherwise.
answers(s) == s = "serving"

\* is_alive() of the first attempt: Pong returns the client.
FirstPing == get("call", "ping0", "pidfile")

FirstPong ==
    /\ epc = "ping0"
    /\ answers(srv)
    /\ pong' = TRUE
    /\ eres' = ClientOk
    /\ epc' = "returned"
    /\ UNCHANGED <<elapsed, launched, srv, cpid>>
    /\ ClientOnly

\* The connection breaks while the call waits (the peer went away).
PingBroken(waiting, failed) ==
    /\ epc = waiting
    /\ srv = "none"
    /\ epc' = failed
    /\ UNCHANGED <<eres, elapsed, pong, launched, srv, cpid>>
    /\ ClientOnly

\* The PID file: a dead process's files are removed, a living one's fail the
\* call; a missing or unreadable file goes on to the spawn.
CheckPidFile ==
    /\ epc = "pidfile"
    /\ CASE cpid = "live" ->
              /\ eres' = StartFailed
              /\ epc' = "returned"
              /\ UNCHANGED cpid
         [] cpid = "dead" ->
              /\ cpid' = "absent"
              /\ epc' = "spawn"
              /\ UNCHANGED eres
         [] OTHER ->
              /\ epc' = "spawn"
              /\ UNCHANGED <<eres, cpid>>
    /\ UNCHANGED <<elapsed, pong, launched, srv>>
    /\ ClientOnly

\* Command::new(daemon_binary).spawn()
SpawnDaemon(ok) ==
    /\ epc = "spawn"
    /\ IF ok
         THEN /\ launched' = TRUE
              /\ elapsed' = 0
              /\ epc' = "loop"
              /\ UNCHANGED eres
         ELSE /\ eres' = StartFailed
              /\ epc' = "returned"
              /\ UNCHANGED <<launched, elapsed>>
    /\ UNCHANGED <<pong, srv, cpid>>
    /\ ClientOnly

\* while start.elapsed() < timeout
within(e) == e < PollTimeout

LoopCheck ==
    /\ epc = "loop"
    /\ IF within(elapsed)
         THEN /\ epc' = "try"
              /\ UNCHANGED eres
         ELSE /\ eres' = StartTimeout
              /\ epc' = "returned"
    /\ UNCHANGED <<elapsed, pong, launched, srv, cpid>>
    /\ ClientOnly

PollPing == get("try", "ping", "sleep")

PollPong ==
    /\ epc = "ping"
    /\ answers(srv)
    /\ pong' = TRUE
    /\ eres' = ClientOk
    /\ epc' = "returned"
    /\ UNCHANGED <<elapsed, launched, srv, cpid>>
    /\ ClientOnly

\* tokio::time::sleep(poll_interval)
PollSleep ==
    /\ epc = "sleep"
    /\ elapsed' = elapsed + 1
    /\ epc' = "loop"
    /\ UNCHANGED <<eres, pong, launched, srv, cpid>>
    /\ ClientOnly

\* The steps of the call itself.
EnsureNext ==
    \/ FirstPing
    \/ FirstPong
    \/ PingBroken("ping0", "pidfile")
    \/ CheckPidFile
    \/ \E ok \in BOOLEAN : SpawnDaemon(ok)
    \/ LoopCheck
    \/ PollPing
    \/ PollPong
    \/ PingBroken("ping", "sleep")
    \/ PollSleep

\* The launched daemon binds its socket and serves.
DaemonServes ==
    /\ launched
    /\ srv = "none"
    /\ srv' = "serving"
    /\ UNCHANGED <<epc, eres, elapsed, pong, launched, cpid>>
    /\ ClientOnly

\* A daemon stops answering (stopped or wedged process) or goes away.
DaemonChanges(to) ==
    /\ srv = "serving"
    /\ to \in {"silent", "none"}
    /\ srv' = to
    /\ UNCHANGED <<epc, eres, elapsed, pong, launched, cpid>>
    /\ ClientOnly

ClientNext ==
    \/ EnsureNext
    \/ DaemonServes
    \/ \E to \in {"silent", "none"} : DaemonChanges(to)

---------------------------------------------------------------------------
(***************************************************************************)
(* Workspace operations (kobo-daemon git_ops.rs) and their handlers        *)
(* (mado-daemon server.rs) on one workspace.  A tree gives every file its  *)
(* content, 0 for a file that is not there.  The repository is             *)
(* initialised: commit 1 is init_repo's empty "Initial workspace".         *)
(***************************************************************************)
MaxCommits == 3

GitFiles == {"a", "b"}

\* File a has two versions and file b one.
Versions == [f \in GitFiles |-> IF f = "a" THEN 2 ELSE 1]

Contents == 0..2

Trees == {t \in [GitFiles -> Contents] : \A f \in GitFiles : t[f] <= Versions[f]}

EmptyTree == [f \in GitFiles |-> 0]

\* The file_paths of a stage-files request.
PathLists == {<<>>, <<"a">>, <<"b">>, <<"a", "b">>, <<"b", "a">>}

\* The two sessions that share the workspace, by their handlers.
Stagers == {1, 2}

\* The oid strings of a restore request: 40 hexadecimal digits that name
\* object n (commits are numbered from 1, object 0 is a tree), or a text
\* that is no hexadecimal number.
Oids == [kind : {"hex"}, n : 0..(MaxCommits + 1)] \cup {[kind |-> "text", n |-> 0]}

NoGitResult == [op |-> "none", res |-> "none"]

GitInit ==
    /\ wt \in Trees
    /\ index = EmptyTree
    /\ index0 = EmptyTree
    /\ commits = <<EmptyTree>>
    /\ head = 1
    /\ gres = NoGitResult
    /\ gpc = [h \in Stagers |-> "idle"]
    /\ greq = [h \in Stagers |-> <<>>]
    /\ gidx = [h \in Stagers |-> EmptyTree]
    /\ gheld = {}
    /\ gparallel = FALSE

GitAtRest ==
    /\ GitInit
    /\ wt = EmptyTree

\* Before two stage-files requests the index holds anything.
StageInit ==
    /\ wt \in Trees
    /\ index \in Trees
    /\ index0 = index
    /\ commits = <<EmptyTree>>
    /\ head = 1
    /\ gres = NoGitResult
    /\ gpc = [h \in Stagers |-> "idle"]
    /\ greq = [h \in Stagers |-> <<>>]
    /\ gidx = [h \in Stagers |-> EmptyTree]
    /\ gheld = {}
    /\ gparallel = FALSE

\* git_stage_files: for every path in turn, add_path when the file exists
\* and remove_path when it does not.
RECURSIVE git_stage_files(_, _, _)
git_stage_files(idx, file_paths, tree) ==
    IF file_paths = <<>> THEN idx
    ELSE LET file_path == Head(file_paths)
             exists == tree[file_path] # 0
             next == IF exists
                     THEN [idx EXCEPT ![file_path] = tree[file_path]]
                     ELSE [idx EXCEPT ![file_path] = 0]
         IN  git_stage_files(next, Tail(file_paths), tree)

\* The files libgit2 knows at a hard reset: those of HEAD's tree and of the
\* index.  Every other file of the working tree is untracked.
Tracked(f) == commits[head][f] # 0 \/ index[f] # 0

\* A reset that also removes the untracked files.
reset_all(target, tree) == target

\* repo.reset(object, ResetType::Hard, None): a forced checkout of the
\* commit's tree.  Its files are written, tracked files that it does not hold
\* are removed, untracked files stay.
reset_hard(target, tree) ==
    [f \in GitFiles |->
        IF target[f] # 0 THEN target[f]
        ELSE IF Tracked(f) THEN 0
        ELSE tree[f]]

\* The session's tool or the user changes a file of the working tree.
WriteFile(f, c) ==
    /\ wt[f] # c
    /\ c <= Versions[f]
    /\ wt' = [wt EXCEPT ![f] = c]
    /\ UNCHANGED <<index, index0, commits, head, gres, gpc, greq, gidx, gheld,
                   gparallel>>
    /\ GitOnly

\* save_milestone: NothingToCommit without changes; else add_all("."), write
\* the index, and commit its tree on HEAD.
save_milestone ==
    /\ Len(commits) < MaxCommits
    /\ IF index = commits[head] /\ wt = index
       THEN /\ gres' = [op |-> "save", res |-> "NothingToCommit"]
            /\ UNCHANGED <<index, commits, head>>
       ELSE /\ index' = wt
            /\ commits' = Append(commits, wt)
            /\ head' = Len(commits) + 1
            /\ gres' = [op |-> "save", res |-> "Ok"]
    /\ UNCHANGED <<wt, index0, gpc, greq, gidx, gheld, gparallel>>
    /\ GitOnly

\* restore_milestone: Oid::from_str, find_commit, reset --hard.
restore_milestone(oid) ==
    /\ IF oid.kind # "hex"
       THEN /\ gres' = [op |-> "restore", res |-> "Git"]
            /\ UNCHANGED <<wt, index, head>>
       ELSE IF oid.n \notin 1..Len(commits)
       THEN /\ gres' = [op |-> "restore", res |-> "CommitNotFound"]
            /\ UNCHANGED <<wt, index, head>>
       ELSE /\ wt' = reset_hard(commits[oid.n], wt)
            /\ index' = commits[oid.n]
            /\ head' = oid.n
            /\ gres' = [op |-> "restore", res |-> "Ok"]
    /\ UNCHANGED <<index0, commits, gpc, greq, gidx, gheld, gparallel>>
    /\ GitOnly

\* git_stage_files_handler as one step, under the workspace lock.
stage_files(file_paths) ==
    /\ index' = git_stage_files(index, file_paths, wt)
    /\ gres' = [op |-> "stage", res |-> "Ok"]
    /\ UNCHANGED <<wt, index0, commits, head, gpc, greq, gidx, gheld, gparallel>>
    /\ GitOnly

GitNext ==
    \/ \E f \in GitFiles : \E c \in Contents : WriteFile(f, c)
    \/ save_milestone
    \/ \E oid \in Oids : restore_milestone(oid)
    \/ \E file_paths \in PathLists : stage_files(file_paths)

\* git_stage_files_handler, step by step: the request of a session.
StageRequest(h, file_paths) ==
    /\ gpc[h] = "idle"
    /\ greq' = [greq EXCEPT ![h] = file_paths]
    /\ gpc' = [gpc EXCEPT ![h] = "acquire"]
    /\ UNCHANGED <<wt, index, index0, commits, head, gres, gidx, gheld, gparallel>>
    /\ GitOnly

\* A lock that is granted whoever holds it.
free_always(holders) == TRUE

\* workspace_locks.acquire(path).await returns the guard of the path once no
\* handler holds it.
free(holders) == holders = {}

StageAcquire(h) ==
    /\ gpc[h] = "acquire"
    /\ free(gheld)
    /\ gheld' = gheld \cup {h}
    /\ gparallel' = (gparallel \/ \E o \in Stagers \ {h} : gpc[o] = "acquire")
    /\ gpc' = [gpc EXCEPT ![h] = "locked"]
    /\ UNCHANGED <<wt, index, index0, commits, head, gres, greq, gidx>>
    /\ GitOnly

\* init_repo opens the repository; git_stage_files: repo.index() reads the
\* index file.
StageOpen(h) ==
    /\ gpc[h] = "locked"
    /\ gidx' = [gidx EXCEPT ![h] = index]
    /\ gpc' = [gpc EXCEPT ![h] = "opened"]
    /\ UNCHANGED <<wt, index, index0, commits, head, gres, greq, gheld, gparallel>>
    /\ GitOnly

\* git_stage_files: the loop over the paths and index.write().
StageWrite(h) ==
    /\ gpc[h] = "opened"
    /\ index' = git_stage_files(gidx[h], greq[h], wt)
    /\ gpc' = [gpc EXCEPT ![h] = "written"]
    /\ UNCHANGED <<wt, index0, commits, head, gres, greq, gidx, gheld, gparallel>>
    /\ GitOnly

\* The handler answers Pong and `_lock` is dropped.
StageReturn(h) ==
    /\ gpc[h] = "written"
    /\ gheld' = gheld \ {h}
    /\ gpc' = [gpc EXCEPT ![h] = "pong"]
    /\ UNCHANGED <<wt, index, index0, commits, head, gres, greq, gidx, gparallel>>
    /\ GitOnly

StageNext ==
    \E h \in Stagers :
        \/ \E file_paths \in PathLists : StageRequest(h, file_paths)
        \/ StageAcquire(h)
        \/ StageOpen(h)
        \/ StageWrite(h)
        \/ StageReturn(h)

---------------------------------------------------------------------------
\* The parts that a specification leaves alone start in one fixed state.
PidAtRest ==
    /\ PidInit
    /\ pidFile = AbsentFile
    /\ sockFile = NoSocket

InitPid ==
    /\ PidInit /\ LockInit /\ StateAtRest /\ ChatInit
    /\ SessionInit /\ StreamInit /\ PageAtRest /\ GitAtRest /\ ClientAtRest

InitLocks ==
    /\ PidAtRest /\ LockInit /\ StateAtRest /\ ChatInit
    /\ SessionInit /\ StreamInit /\ PageAtRest /\ GitAtRest /\ ClientAtRest

InitState ==
    /\ PidAtRest /\ LockInit /\ StateInit /\ ChatInit
    /\ SessionInit /\ StreamInit /\ PageAtRest /\ GitAtRest /\ ClientAtRest

SpecPid == InitPid /\ [][PidNext]_vars

SpecLocks == InitLocks /\ [][LockNext]_vars

SpecState == InitState /\ [][StateNext]_vars

InitChat ==
    /\ PidAtRest /\ LockInit /\ StateAtRest /\ ChatInit
    /\ SessionInit /\ StreamInit /\ PageAtRest /\ GitAtRest /\ ClientAtRest

SpecChat == InitChat /\ [][ChatNext]_vars

\* The state file of an earlier run may be there when the daemon starts.
InitSession ==
    /\ PidAtRest /\ LockInit /\ StateInit /\ ChatInit
    /\ SessionInit /\ StreamInit /\ PageAtRest /\ GitAtRest /\ ClientAtRest
    /\ tmpFile = NoFile

SpecSession == InitSession /\ [][SessionNext]_vars

InitStream ==
    /\ PidAtRest /\ LockInit /\ StateAtRest /\ ChatInit
    /\ SessionInit /\ StreamInit /\ PageAtRest /\ GitAtRest /\ ClientAtRest

SpecStream == InitStream /\ [][StreamNext]_vars

InitClient ==
    /\ PidAtRest /\ LockInit /\ StateAtRest /\ ChatInit
    /\ SessionInit /\ StreamInit /\ PageAtRest /\ GitAtRest /\ ClientInit

SpecClient == InitClient /\ [][ClientNext]_vars

InitGit ==
    /\ PidAtRest /\ LockInit /\ StateAtRest /\ ChatInit
    /\ SessionInit /\ StreamInit /\ PageAtRest /\ ClientAtRest /\ GitInit

SpecGit == InitGit /\ [][GitNext]_vars

InitStage ==
    /\ PidAtRest /\ LockInit /\ StateAtRest /\ ChatInit
    /\ SessionInit /\ StreamInit /\ PageAtRest /\ ClientAtRest /\ StageInit

SpecStage == InitStage /\ [][StageNext]_vars

---------------------------------------------------------------------------
(***************************************************************************)
(* Properties of the PID guard.                                            *)
(***************************************************************************)
\* C1 (single instance): while the PID file holds the PID of a live daemon
\* process h during the whole of an acquire by b, no step of that acquire
\* changes the PID file or the socket file, the acquire never takes the
\* guard, and it returns AlreadyRunning carrying h.
C1_SingleInstance ==
    [][\A b \in Procs :
          (pc[b] \in InAcquire /\ held[b] # 0 /\ pc'[b] # pc[b]
             /\ pc'[b] # "crashed")
          => /\ pidFile' = pidFile
             /\ sockFile' = sockFile
             /\ pc'[b] \in {"alive", "failed"}
             /\ pc'[b] = "failed"
                  => result'[b] = [kind |-> "AlreadyRunning", pid |-> held[b]]]_vars

\* C1 witness: an acquire was refused with AlreadyRunning{h} while h, alive,
\* held the guard.
C1_Witness ==
    \E b \in Procs : \E h \in Procs \ {b} :
        /\ pc[b] = "failed"
        /\ result[b] = [kind |-> "AlreadyRunning", pid |-> h]
        /\ held[b] = h
        /\ pc[h] \in {"holding", "bind", "serving"}
        /\ HeldBy(h, pidFile, alive)

\* C2 (stale takeover): an acquire that starts on a PID file whose recorded
\* PID is no live process, and that no other process disturbs, never fails;
\* it removes the stale PID file and, when a socket path was given, the
\* socket file, and when it returns the PID file holds the caller's PID.
C2_StaleTakeover ==
    [][\A b \in Procs :
          (pc[b] \in InAcquire /\ stale[b] /\ pc'[b] # pc[b]
             /\ pc'[b] # "crashed")
          => /\ pc'[b] # "failed"
             /\ pc[b] = "rm_pid" => ~pidFile'.exists
             /\ (pc[b] = "rm_sock" /\ sockArg[b]) => ~sockFile'.exists
             /\ pc'[b] = "holding"
                  => /\ result'[b] = [kind |-> "Ok", pid |-> b]
                     /\ pidFile'.exists
                     /\ pidFile'.content = FormatPid(b)
                     /\ "pid" \in cleaned'[b]
                     /\ sockArg[b] => ~sockFile'.exists]_vars

\* C2 witness: a takeover that removed a stale PID file and a stale socket
\* and left the caller's PID in the PID file.
C2_Witness ==
    \E b \in Procs :
        /\ pc[b] = "holding"
        /\ stale[b]
        /\ existing[b] \in StalePids
        /\ cleaned[b] = {"pid", "sock"}
        /\ ~sockFile.exists
        /\ read_pid = [kind |-> "Ok", pid |-> b]

---------------------------------------------------------------------------
(***************************************************************************)
(* Properties of the workspace locks.                                      *)
(***************************************************************************)
\* C3 (workspace serialization): two handlers that acquired the workspace
\* lock for the same path are never both between acquire returning and the
\* guard being dropped.
C3_WorkspaceSerialization ==
    \A h1, h2 \in Handlers :
        (h1 # h2 /\ hpc[h1] = "critical" /\ hpc[h2] = "critical")
        => hpath[h1] # hpath[h2]

\* C3 witness: a handler is inside its critical section on a path while
\* another handler waits for the lock of the same path and a third one is
\* inside its critical section on another path.
C3_Witness ==
    \E h1, h2, h3 \in Handlers :
        /\ hpc[h1] = "critical" /\ hpc[h2] = "lock_path" /\ hpc[h3] = "critical"
        /\ hpath[h1] = hpath[h2] /\ hmutex[h1] = hmutex[h2]
        /\ hpath[h3] # hpath[h1]

---------------------------------------------------------------------------
(***************************************************************************)
(* The state store.                                                        *)
(***************************************************************************)
InSave == {"create", "write", "sync", "rename", "saved", "failed"}

\* C4: at every step of a save, and after a crash between any two of its
\* steps, the file at the state path is either the file that was there
\* when the save began or the complete document of the state being saved.
C4_AtomicReplacement ==
    \/ stFile = before
    \/ /\ stFile.exists
       /\ stFile.content = json
       /\ Deserialize(stFile.content) = [ok |-> TRUE, sessions |-> saving]

\* C4 happens: a daemon killed while its sibling file was partly written,
\* above a state file that an earlier save had left.
C4_Witness ==
    /\ spc = "down"
    /\ tmpFile.exists
    /\ 0 < Len(tmpFile.content)
    /\ Len(tmpFile.content) < Len(json)
    /\ savedState.some
    /\ saving # savedState.sessions
    /\ stFile = before
    /\ Deserialize(stFile.content) = [ok |-> TRUE, sessions |-> savedState.sessions]

\* C5: when save(S) has returned Ok, no temporary sibling exists and the
\* state file holds S.
C5_SavePostcondition ==
    spc = "saved"
        => /\ ~tmpFile.exists
           /\ stFile.exists
           /\ Deserialize(stFile.content) = [ok |-> TRUE, sessions |-> mem]

\* C5 happens: a save of two sessions returned Ok over a leftover sibling.
C5_Witness ==
    /\ spc = "saved"
    /\ Cardinality(DOMAIN mem) = 2
    /\ before # stFile
    /\ ~tmpFile.exists

\* C6: load of a file that save(S) wrote returns S.
C6_RoundTrip ==
    (spc = "loaded" /\ savedState.some)
        => loadRes = [ok |-> TRUE, sessions |-> savedState.sessions]

\* C6 happens: a load returned two sessions, one without a working
\* directory, that a save had written.
C6_Witness ==
    /\ spc = "loaded"
    /\ savedState.some
    /\ loadRes.ok
    /\ DOMAIN loadRes.sessions = SessionIds
    /\ loadRes.sessions["a"].working_dir = <<>>
    /\ loadRes.sessions["b"].working_dir # <<>>
    /\ loadRes.sessions["a"].status # loadRes.sessions["b"].status

---------------------------------------------------------------------------
(***************************************************************************)
(* The chat supervisor.                                                    *)
(***************************************************************************)
\* The events of turn t, in the order a subscriber receives them.
TurnEvents(t) == SelectSeq(stream, LAMBDA e : e.turn = t)

\* C7: when an Idle event of a turn is sent and the turn's result event
\* carried an external session id, that id has been written to the
\* session's record in the state file.
C7_ResumePersistence ==
    \A i \in DOMAIN stream :
        (stream[i].kind = "Idle" /\ stream[i].sid # 0) => stream[i].disk

\* C8: the events of a turn that reached its result line and has ended
\* are TextDelta and ToolUseStart events in the order of the lines they
\* come from, then MessageComplete, then Idle as the last one.
C8_ChannelOrdering ==
    \A t \in Turns :
        (rpc[t] = "done" /\ fsid[t] # 0)
            => LET ev == TurnEvents(t)
                   n == Len(ev)
               IN  /\ n >= 2
                   /\ ev[n].kind = "Idle"
                   /\ ev[n - 1].kind = "MessageComplete"
                   /\ \A i \in 1..(n - 2) : ev[i].kind \in {"TextDelta", "ToolUseStart"}
                   /\ \A i, j \in 1..(n - 2) : i < j => ev[i].line < ev[j].line

\* C9: when an accepted send_message has completed with assistant text,
\* the stream carried exactly one MessageComplete of the turn and its last
\* event is Idle, and get_messages returns the user message of the turn
\* immediately followed by its assistant message.
C9_ChatTurnResult ==
    \A t \in Turns :
        (tres[t] = "Ok" /\ rpc[t] = "done" /\ acc[t] > 0 /\ fsid[t] # 0)
            => LET ev == TurnEvents(t)
                   log == get_messages(sessions.messages, None, None)
               IN  /\ Cardinality({i \in DOMAIN ev : ev[i].kind = "MessageComplete"}) = 1
                   /\ ev[Len(ev)].kind = "Idle"
                   /\ \E i \in 1..(Len(log) - 1) :
                         /\ log[i] = NewMessage(t, "User", "send", 0)
                         /\ log[i + 1] = NewMessage(t, "Assistant", "cleanup", acc[t])

\* C10: a cancel_response that found a handle has, once nothing is left
\* to run, removed the handle, returned Ok, set the state to Idle and left
\* the stream ending in Idle; one that found none returned
\* NoActiveResponse.
C10_Cancel ==
    (ncancel > 0 /\ ~ENABLED ChatNext)
        => IF ctarget = 0 THEN cres = "NoActiveResponse"
           ELSE /\ cpc = "idle"
                /\ cres = "Ok"
                /\ active_processes # ctarget
                /\ sessions.state = "Idle"
                /\ stream # <<>>
                /\ stream[Len(stream)].kind = "Idle"


---------------------------------------------------------------------------
(***************************************************************************)
(* Properties of the daemon's files at startup and at exit.                *)
(***************************************************************************)
\* C16 (files gone at return): when start_with_shutdown returns in a process
\* that had acquired the PID guard, after a graceful shutdown or after an
\* error of start_server, there is no file at the socket path and no file at
\* the PID path.
C16_FilesGoneAtReturn ==
    [][\A b \in Procs :
          (pc[b] = "drop_pid" /\ pc'[b] = "exited")
          => /\ ~pidFile'.exists
             /\ ~sockFile'.exists]_vars

\* C17 (stale socket probe): a startup that finds a file at the socket path
\* to which a connection succeeds ends with AlreadyRunning and, up to its
\* return, leaves the file as it is; a startup that finds a file to which
\* the connection fails removes it, and the daemon then binds and serves on
\* the path.
C17_StaleSocketProbe ==
    [][\A b \in Procs :
          /\ (pc[b] = "holding" /\ pc'[b] \notin {"holding", "crashed"}
                /\ sockFile.exists /\ ConnectSucceeds)
               => /\ pc'[b] = "unwind"
                  /\ result'[b] = ServerAlreadyRunning
                  /\ sockFile' = sockFile
          /\ (result[b] = ServerAlreadyRunning
                /\ pc'[b] # pc[b] /\ pc'[b] # "crashed")
               => sockFile' = sockFile
          /\ (pc[b] = "holding" /\ pc'[b] \notin {"holding", "crashed"}
                /\ sockFile.exists /\ ~ConnectSucceeds)
               => /\ pc'[b] = "bind"
                  /\ ~sockFile'.exists
          /\ (pc[b] = "bind" /\ pc'[b] \notin {"bind", "crashed"})
               => /\ pc'[b] = "serving"
                  /\ sockFile' = [exists |-> TRUE, listener |-> b]]_vars

---------------------------------------------------------------------------
(***************************************************************************)
(* Properties of the session manager and of the daemon run.                *)
(***************************************************************************)
\* C11 (idempotent destroy): a destroy-session request for an id that is not
\* in the session map (never created, or destroyed before) is answered with
\* Pong and leaves the session map, the process table and the running PTY
\* children as they were.
C11_IdempotentDestroy ==
    [][\A id \in SessionIds :
          (destroy_session_handler(id) /\ id \notin DOMAIN mem)
          => /\ response'.res = "pong"
             /\ mem' = mem
             /\ processes' = processes
             /\ ptyChildren' = ptyChildren]_vars

\* C11 witness: an unknown id was destroyed, with Pong as the answer, while
\* another session and its process were there to be left alone.
C11_Witness ==
    /\ response.op = "destroy"
    /\ response.res = "pong"
    /\ ~response.known
    /\ response.id \notin DOMAIN mem
    /\ \E other \in DOMAIN mem : other \in processes /\ other \in ptyChildren

\* C12 (active sessions have children): while the daemon serves, every
\* session of the map whose status is Active has a running child, held by
\* the PTY supervisor or by the chat supervisor.
C12_ActiveHasChild ==
    daemon \in Serving
    => \A id \in DOMAIN mem :
          mem[id].status = "Active"
          => \/ id \in processes /\ id \in ptyChildren
             \/ id \in turnChildren

\* C13 (destroy ends every child): when a destroy-session request is answered
\* with Pong, the session has no running PTY child and no running per-turn
\* chat child, and its process entry (with the output channel), its chat
\* channel and its chat record are gone.
C13_DestroyEndsChildren ==
    [][\A id \in SessionIds :
          (destroy_session_handler(id) /\ response'.res = "pong")
          => /\ id \notin ptyChildren'
             /\ id \notin turnChildren'
             /\ id \notin processes'
             /\ id \notin event_senders'
             /\ id \notin conversations']_vars

\* C14 (saved before returning): when create_session returns a session, the
\* state file loads to a map that holds it; when destroy_session returns Ok
\* for a session of the map, the state file loads to a map without it.
C14_SavedBeforeReturn ==
    [][\A id \in SessionIds :
          /\ (\E model \in Models : create_session(id, model, TRUE)
                 /\ response'.res = "session")
               => /\ LoadFile(stFile').ok
                  /\ id \in DOMAIN LoadFile(stFile').sessions
                  /\ LoadFile(stFile').sessions[id] = mem'[id]
          /\ (destroy_session_handler(id) /\ response'.res = "pong"
                /\ id \in DOMAIN mem)
               => /\ LoadFile(stFile').ok
                  /\ id \notin DOMAIN LoadFile(stFile').sessions]_vars

\* C15 (shutdown preserves sessions): after a graceful shutdown whose save
\* returned Ok, the state file exists, loads, and holds exactly the sessions
\* that were in the session map when the shutdown was triggered.
C15_ShutdownPreserves ==
    (daemon = "down" /\ liveAtTrigger.some /\ liveAtTrigger.saved)
    => /\ stFile.exists
       /\ load.ok
       /\ load.sessions = liveAtTrigger.sessions


---------------------------------------------------------------------------
(***************************************************************************)
(* Properties of the event fan-out.                                        *)
(***************************************************************************)
\* The item numbers of the events a subscriber was sent after the first.
ItemsSent(s) == [i \in 1..(Len(sse[s]) - 1) |-> sse[s][i + 1].data[2]]

\* C18 (lagging consumers): a send is never held up by a receiver; the SSE
\* events of a subscriber after the first are item events only (none stands
\* for a loss), in the order of the channel; and an item the subscriber has
\* passed without being sent it had been overwritten, that is, at least
\* Capacity newer items had been stored, so that the subscriber went on at
\* the oldest item the channel still had.
C18_LaggingConsumer ==
    /\ \A key \in ChanKeys :
          (tx[key].made /\ key[2] \in Existing /\ tx[key].tail < MaxItems)
          => ENABLED Send(key)
    /\ \A s \in Subs :
          rx[s].st = "open"
          => LET kind == rx[s].key[1]
                 sent == ItemsSent(s)
                 passed == (rx[s].start + 1)..(rx[s].next - 1)
             IN  /\ \A i \in DOMAIN sent :
                       /\ sent[i] \in passed
                       /\ sse[s][i + 1] = ItemEvent(kind, sent[i])
                 /\ \A i, j \in DOMAIN sent : i < j => sent[i] < sent[j]
                 /\ \A n \in passed :
                       (\A i \in DOMAIN sent : sent[i] # n)
                       => n + Capacity(kind) <= tx[rx[s].key].tail

\* C18 witness: a subscriber of the PTY output fell behind, lost an item,
\* and was then sent a later one, while the producer had gone on sending.
C18_Witness ==
    \E s \in Subs :
        /\ rx[s].st = "open"
        /\ rx[s].key = <<"output", "a">>
        /\ rx[s].missed > 0
        /\ \E i \in DOMAIN ItemsSent(s) :
              ItemsSent(s)[i] > rx[s].start + rx[s].missed
        /\ tx[rx[s].key].tail > rx[s].start + Capacity("output")

\* C19 as claimed (SSE framing): the stream of a subscription to a session
\* is the synthetic event followed by exactly one event for every item sent
\* on the channel after the subscription and reached by the subscriber, in
\* the order of the channel.
C19_SseFraming ==
    \A s \in Subs :
        (rx[s].st = "open" /\ rx[s].key[2] \in Existing)
        => sse[s] = <<Synthetic(rx[s].key[1])>>
                      \o [i \in 1..(rx[s].next - 1 - rx[s].start) |->
                             ItemEvent(rx[s].key[1], rx[s].start + i)]

\* C19 amended (SSE framing): the stream of a subscription to a session
\* starts with the one synthetic event; after it come, in the order of the
\* channel, the events of items sent after the subscription, one for every
\* such item the subscriber reached except those its receiver reported as
\* lagged; a subscriber that never lagged is sent exactly one per item.
C19_SseFramingAmended ==
    \A s \in Subs :
        (rx[s].st = "open" /\ rx[s].key[2] \in Existing)
        => LET kind == rx[s].key[1]
               sent == ItemsSent(s)
           IN  /\ Len(sse[s]) >= 1
               /\ sse[s][1] = Synthetic(kind)
               /\ \A i \in DOMAIN sent :
                     /\ sse[s][i + 1] = ItemEvent(kind, sent[i])
                     /\ sent[i] > rx[s].start
                     /\ sent[i] < rx[s].next
               /\ \A i, j \in DOMAIN sent : i < j => sent[i] < sent[j]
               /\ Len(sent) + rx[s].missed = rx[s].next - 1 - rx[s].start
               /\ rx[s].missed = 0
                    => sent = [i \in 1..(rx[s].next - 1 - rx[s].start) |->
                                  rx[s].start + i]

\* C19 witness: a subscriber of the chat events that lagged once and was
\* sent the synthetic event and two item events, next to one that never
\* lagged.
C19_Witness ==
    \E s, t \in Subs :
        /\ rx[s].st = "open" /\ rx[t].st = "open"
        /\ rx[s].key = <<"message", "a">>
        /\ rx[s].missed > 0
        /\ Len(sse[s]) >= 3
        /\ rx[t].missed = 0
        /\ Len(sse[t]) >= 3

\* C20 (unknown session): a subscription, to the PTY output or to the chat
\* events, for an id that is no session is sent the one error event, and
\* its stream has ended.
C20_UnknownSession ==
    \A s \in Subs :
        (rx[s].st # "idle" /\ rx[s].key[2] \notin Existing)
        => /\ sse[s] = <<ErrorEvent>>
           /\ rx[s].st = "ended"


---------------------------------------------------------------------------
(***************************************************************************)
(* Properties of the client's bootstrap.                                   *)
(***************************************************************************)

\* C21: ensure_daemon_running always terminates: it returns a client only
\* after the daemon answered a ping, it fails otherwise with StartFailed or
\* with StartTimeout once the polling budget is used up, and it is never in a
\* wait that nothing ends: a call that has not returned has a step to take.
C21_EnsureTerminates ==
    /\ eres = ClientOk => pong
    /\ epc = "returned" => eres \in {ClientOk, StartFailed, StartTimeout}
    /\ eres = StartTimeout => elapsed >= PollTimeout
    /\ elapsed <= PollTimeout
    /\ epc # "returned" => ENABLED EnsureNext

---------------------------------------------------------------------------
(***************************************************************************)
(* Properties of the chat session's state, of its turns and of their       *)
(* children.                                                               *)
(***************************************************************************)

\* C22: the conversation_state of a chat session changes only from Empty to
\* Streaming, from Streaming to Idle and from Idle to Streaming, and a
\* send_message that fails at the tool lookup or at the spawn leaves the state
\* at Error.
C22_StateMachine ==
    [][ /\ sessions'.state # sessions.state =>
              <<sessions.state, sessions'.state>> \in
                  {<<"Empty", "Streaming">>, <<"Streaming", "Idle">>,
                   <<"Idle", "Streaming">>}
        /\ \A t \in Turns : \A err \in {"ClaudeNotFound", "SpawnFailed"} :
              SendSpawnFails(t, err) => sessions'.state = "Error" ]_vars

---------------------------------------------------------------------------
(***************************************************************************)
(* Properties of session creation.                                         *)
(***************************************************************************)

\* C23: create_session with a model that is none of opus, sonnet and haiku
\* fails with InvalidModel and leaves the process table and the session map
\* as they were: no child is spawned and no session is added.
C23_InvalidModel ==
    [][\A id \in SessionIds : \A model \in Models \ {"opus", "sonnet", "haiku"} :
          \A spawned \in BOOLEAN :
             create_session(id, model, spawned)
               => /\ response'.res = "InvalidModel"
                  /\ UNCHANGED <<processes, ptyChildren, mem, stFile>>]_vars

C23_Witness ==
    /\ response.op = "create"
    /\ response.res = "InvalidModel"
    /\ DOMAIN mem # {}

---------------------------------------------------------------------------
(***************************************************************************)
(* Properties of the workspace operations.                                 *)
(***************************************************************************)

\* C24 (concurrent staging): when two sessions that share a workspace have
\* each called stage-files, in parallel or not, both were answered Pong and
\* the index is what applying the two requests one after the other, in one of
\* the two orders, makes of the index they found.
C24_ConcurrentStaging ==
    (\A h \in Stagers : gpc[h] = "pong")
    => \/ index = git_stage_files(git_stage_files(index0, greq[1], wt), greq[2], wt)
       \/ index = git_stage_files(git_stage_files(index0, greq[2], wt), greq[1], wt)

\* C24 happens: both requests are answered, one of them waited for the lock
\* while the other held it, and each of them changed an entry of the index.
C24_Witness ==
    /\ \A h \in Stagers : gpc[h] = "pong"
    /\ gparallel
    /\ greq[1] = <<"a">>
    /\ greq[2] = <<"b">>
    /\ index["a"] # index0["a"]
    /\ index["b"] # index0["b"]

\* C25 as claimed (milestone restore): a restore_milestone of a commit makes
\* the working tree equal to the tree the milestone captured, whatever was
\* modified and saved since; a restore_milestone of an oid that names no
\* commit fails with CommitNotFound and leaves the working tree as it was.
C25_MilestoneRestore ==
    [][\A oid \in Oids :
          restore_milestone(oid)
            => IF oid.kind = "hex" /\ oid.n \in 1..Len(commits)
               THEN gres'.res = "Ok" /\ wt' = commits[oid.n]
               ELSE oid.kind = "hex"
                      => gres'.res = "CommitNotFound" /\ wt' = wt]_vars

\* C25 amended: the restore writes every file of the milestone with the
\* content captured, removes the tracked files (those of HEAD or of the
\* index) that the milestone does not hold, and leaves the untracked files
\* alone; an oid that names no commit fails with CommitNotFound, an oid
\* string that is no hexadecimal number with the Git error, and both leave
\* the working tree, the index and HEAD as they were.
C25_MilestoneRestoreAmended ==
    [][\A oid \in Oids :
          restore_milestone(oid)
            => IF oid.kind = "hex" /\ oid.n \in 1..Len(commits)
               THEN /\ gres'.res = "Ok"
                    /\ head' = oid.n
                    /\ index' = commits[oid.n]
                    /\ \A f \in GitFiles :
                          /\ commits[oid.n][f] # 0 => wt'[f] = commits[oid.n][f]
                          /\ (commits[oid.n][f] = 0
                                /\ (commits[head][f] # 0 \/ index[f] # 0))
                             => wt'[f] = 0
                          /\ (commits[oid.n][f] = 0 /\ commits[head][f] = 0
                                /\ index[f] = 0)
                             => wt'[f] = wt[f]
               ELSE /\ gres'.res = IF oid.kind = "hex" THEN "CommitNotFound"
                                   ELSE "Git"
                    /\ UNCHANGED <<wt, index, head, commits>>]_vars

\* C25 happens: milestone 2 was saved with file a, a later milestone changed
\* a, file b was written after it and never staged, and milestone 2 was
\* restored: a is as captured and the untracked b is still there.
C25_Witness ==
    /\ gres = [op |-> "restore", res |-> "Ok"]
    /\ head = 2
    /\ Len(commits) = 3
    /\ commits[2]["a"] = 1
    /\ commits[3]["a"] = 2
    /\ commits[2]["b"] = 0
    /\ commits[3]["b"] = 0
    /\ wt["a"] = 1
    /\ wt["b"] # 0

---------------------------------------------------------------------------
(***************************************************************************)
(* Properties of startup on damaged files.                                 *)
(***************************************************************************)

\* C26: when the PID file exists and its text does not parse as a PID,
\* acquire fails with InvalidPidFile, and neither that read nor the return of
\* the failed caller changes the PID file or the socket file.
C26_InvalidPidFile ==
    [][\A b \in Procs :
          /\ (AcquireReadPid(b) /\ pidFile.exists
                /\ ~ParseU32(Trim(pidFile.content)).ok)
             => /\ pc'[b] = "failed"
                /\ result'[b].kind = "InvalidPidFile"
                /\ pidFile' = pidFile
                /\ sockFile' = sockFile
          /\ (pc[b] = "failed" /\ result[b].kind = "InvalidPidFile"
                /\ pc'[b] # pc[b])
             => /\ pidFile' = pidFile
                /\ sockFile' = sockFile]_vars

\* C26 happens: the acquire of a start on a PID file of garbage next to a
\* socket file has failed, and both files are still there.
C26_Witness ==
    \E b \in Procs :
        /\ pc[b] = "failed"
        /\ result[b].kind = "InvalidPidFile"
        /\ pidFile.exists
        /\ pidFile.content = <<"x">>
        /\ sockFile.exists

C28_CancelAndCleanupFinish ==
    /\ cpc = "lock_sessions"
         => \/ ENABLED CancelSetIdle
            \/ \E t \in Turns :
                  /\ sessLock = t
                  /\ ENABLED (\/ \E saved \in BOOLEAN : ReaderPersist(t, saved)
                              \/ ReaderRemoveActive(t))
    /\ \A t \in Turns :
          rpc[t] = "lock_active"
            => \/ ENABLED ReaderRemoveActive(t)
               \/ activeLock = Canceller /\ ENABLED CancelSetIdle

\* C29: the child of a turn has the entry of its session in the
\* active-process table from before its reader starts until its turn ends or
\* is cancelled, and only the end or the cancellation of that same turn takes
\* the entry away, also when send_message is called again while the turn is
\* streaming.
C29_EntryOwnership ==
    [][\A t \in Turns :
          /\ (rpc'[t] \in {"read", "persist", "lock_active"} /\ ctarget' # t)
               => active_processes' = t
          /\ (active_processes = t /\ active_processes' # t)
               => ReaderRemoveActive(t) \/ CancelKill]_vars

---------------------------------------------------------------------------
(***************************************************************************)
(* Reading the message log: get-messages requests on a session whose log   *)
(* is any sequence of messages with ids of their own.                      *)
(***************************************************************************)
\* The longest log of the requests.
MaxLog == 3

\* The messages of two turns: a user message and an assistant message each.
LogMessages ==
    {NewMessage(t, "User", "send", 0) : t \in 1..2}
        \cup {NewMessage(t, "Assistant", "cleanup", 1) : t \in 1..2}

Logs ==
    {log \in UNION {[1..n -> LogMessages] : n \in 0..MaxLog} :
        \A i, j \in DOMAIN log : i # j => log[i] # log[j]}

\* The query parameters: limit, and before_id with an id that no message has.
Limits == {None} \cup {Some(n) : n \in 0..(MaxLog + 1)}

BeforeIds ==
    {None} \cup {Some(Id(m)) : m \in LogMessages} \cup {Some(<<0, "client">>)}

MessagesInit ==
    /\ sessions \in
          {NoSession} \cup
          {[init_session(NoSession, SessionModel, 0) EXCEPT
              !.messages = log, !.state = "Idle"] : log \in Logs}
    /\ active_processes = 0
    /\ sessLock = 0
    /\ activeLock = 0
    /\ dsid = 0
    /\ diskSid = 0
    /\ stream = <<>>
    /\ tpc = [t \in Turns |-> "idle"]
    /\ tres = [t \in Turns |-> "none"]
    /\ script = [t \in Turns |-> <<>>]
    /\ eof = [t \in Turns |-> 0]
    /\ rpos = [t \in Turns |-> 0]
    /\ rpc = [t \in Turns |-> "idle"]
    /\ acc = [t \in Turns |-> 0]
    /\ fsid = [t \in Turns |-> 0]
    /\ cpc = "idle"
    /\ ctarget = 0
    /\ cres = "none"
    /\ ncancel = 0
    /\ persisted = {}
    /\ stateLock = 0

MessagesNext ==
    \E limit \in Limits : \E before_id \in BeforeIds :
        get_messages_handler(limit, before_id)

InitMessages ==
    /\ PidAtRest /\ LockInit /\ StateAtRest /\ MessagesInit
    /\ SessionInit /\ StreamInit /\ PageAtRest /\ GitAtRest /\ ClientAtRest

SpecMessages == InitMessages /\ [][MessagesNext]_vars

\* C31: get_messages(id, limit, before_id) returns a contiguous part of
\* the log, in log order: it ends right before the message whose id is
\* before_id (at the end of the log when before_id is absent or the id of
\* no message), and it has `limit` messages, or all the messages up to
\* there when they are fewer or no limit is given.
C31_GetMessages ==
    [][\A limit \in Limits : \A before_id \in BeforeIds :
          get_messages_handler(limit, before_id)
              => LET log == sessions'.messages
                     out == gmres'.messages
                     at == IF before_id = None THEN {}
                           ELSE {i \in DOMAIN log : Id(log[i]) = before_id[1]}
                     hi == IF at = {} THEN Len(log)
                           ELSE (CHOOSE i \in at : \A k \in at : i <= k) - 1
                     n == IF limit = None \/ limit[1] >= hi THEN hi ELSE limit[1]
                 IN  /\ Len(out) = n
                     /\ \A k \in 1..n : out[k] = log[hi - n + k]]_vars

\* A request with limit 1 and the id of the third of three messages has
\* been answered with the second message.
C31_Witness ==
    /\ gmres.op = "Messages"
    /\ Len(sessions.messages) = 3
    /\ gmres.limit = Some(1)
    /\ gmres.before_id = Some(Id(sessions.messages[3]))
    /\ gmres.messages = <<sessions.messages[2]>>

---------------------------------------------------------------------------
\* C32: the guard of the registry is dropped before the mutex of the path
\* is awaited: no handler that waits for or holds the mutex of a path holds
\* the registry, so a handler that cannot take the registry waits only for
\* a handler that is inside the map lookup, and a handler that cannot take
\* the mutex of its path waits only for a handler that holds the mutex of
\* the same path, never for a holder or a waiter of another path.
C32_OuterReleasedFirst ==
    /\ \A h \in Handlers : regOwner = h => hpc[h] = "entry"
    /\ \A h \in Handlers :
          (hpc[h] = "lock_map" /\ ~ENABLED LockMap(h))
              => \E g \in Handlers \ {h} : regOwner = g /\ ENABLED MapEntry(g)
    /\ \A h \in Handlers :
          (hpc[h] = "lock_path" /\ ~ENABLED LockOwned(h))
              => \E g \in Handlers \ {h} :
                    hpc[g] = "critical" /\ hpath[g] = hpath[h]

\* A handler holds the registry for one path while another path has a
\* holder of its mutex and a waiter on it.
C32_Witness ==
    \E h1, h2, h3 \in Handlers :
        /\ hpc[h1] = "critical" /\ hpc[h2] = "lock_path"
        /\ hpath[h1] = hpath[h2]
        /\ hpc[h3] = "entry" /\ regOwner = h3 /\ hpath[h3] # hpath[h1]

---------------------------------------------------------------------------
\* C33: the mutex of the session map (DaemonState) is held only across
\* operations on the map: while a reader task is writing the state file
\* (daemon_state.save), it does not hold that mutex.
C33_NoLockAcrossIo ==
    \A t \in Turns : rpc[t] = "persist" => stateLock # t

\* C34: init_session for a session that has a chat session (the call of
\* every send-message and get-messages request) leaves its message log,
\* conversation state, external session id, model and totals unchanged.
C34_InitSessionKeeps ==
    [][(/\ sessions.exists
        /\ \/ \E t \in Turns : SendInit(t)
           \/ get_messages_handler(None, None))
          => /\ sessions'.messages = sessions.messages
             /\ sessions'.state = sessions.state
             /\ sessions'.claude_session_id = sessions.claude_session_id
             /\ sessions'.model = sessions.model
             /\ sessions'.total_cost_usd = sessions.total_cost_usd]_vars

\* The send-message request of the second turn has called init_session on
\* a session that has messages, an external session id and a cost, and a
\* get-messages request has been answered with its messages.
C34_Witness ==
    /\ tpc[2] = "read"
    /\ sessions.messages # <<>>
    /\ sessions.state = "Idle"
    /\ sessions.claude_session_id # 0
    /\ sessions.total_cost_usd > 0
    /\ gmres.op = "Messages"
    /\ gmres.messages = sessions.messages

---------------------------------------------------------------------------
\* The child of turn u is running: it was spawned, it has not been killed
\* and its reader has not drained its output.
Running(u) ==
    /\ tpc[u] \in {"store", "sender", "done"}
    /\ ctarget # u
    /\ rpos[u] < eof[u]

\* C37: once cancel_response has returned, the cleanup of the reader of the
\* cancelled turn leaves the state Streaming and leaves the active-process
\* entry in the table while the child of a later turn is running.
C37_LateCleanup ==
    [][\A t, u \in Turns :
          (t < u /\ ctarget = t /\ cpc = "idle" /\ Running(u))
              => /\ (ReaderUpdateSession(t) /\ sessions.state = "Streaming")
                        => sessions'.state = "Streaming"
                 /\ (ReaderRemoveActive(t) /\ active_processes = u)
                        => active_processes' = u]_vars

\* C38: whenever no send_message call is between storing its user message
\* and storing its child, a session in state Streaming has a child in the
\* active-process table.
C38_StreamingHasChild ==
    (/\ sessions.state = "Streaming"
     /\ \A t \in Turns : tpc[t] \notin {"spawn", "store"})
        => active_processes # 0

\* C39: a turn that has ended, by itself or cancelled, has published
\* exactly one Idle event.
C39_OneIdle ==
    \A t \in Turns :
        (rpc[t] = "done" /\ (ctarget = t => cpc = "idle"))
            => Cardinality({i \in DOMAIN stream :
                              stream[i].kind = "Idle" /\ stream[i].turn = t}) = 1

\* C40: when a turn with assistant text and a result line has ended, the
\* message of its MessageComplete event has the id and the content of an
\* assistant message in the session's log.
C40_SameMessage ==
    \A t \in Turns :
        (rpc[t] = "done" /\ acc[t] > 0 /\ fsid[t] # 0)
            => \A i \in DOMAIN stream :
                  (stream[i].kind = "MessageComplete" /\ stream[i].turn = t)
                      => \E k \in DOMAIN sessions.messages :
                            /\ Id(sessions.messages[k]) = Id(stream[i].message)
                            /\ sessions.messages[k].content = stream[i].message.content

---------------------------------------------------------------------------
\* Positions of a process whose PidFile guard is alive.
Guarded == {"holding", "bind", "serving", "unwind", "drop_pid"}

\* C35: in racing startups on one pid_path at most one process obtains a
\* PID guard: no two processes are past acquire with Ok at the same time.
C35_RacingStartup ==
    Cardinality({b \in Procs : pc[b] \in Guarded}) <= 1

\* b is on a failure path of its startup: acquire was refused, acquire is
\* cleaning up after a stale PID, the socket is being probed or bound, or b
\* unwinds after the socket probe reported AlreadyRunning.
Failing(b) ==
    \/ pc[b] \in {"rm_pid", "rm_sock", "failed", "holding", "bind"}
    \/ result[b] = ServerAlreadyRunning

\* C36: no step of a daemon process on a failure path of its startup
\* removes the socket file on which another live daemon serves, or the PID
\* file that holds the PID of that daemon.
C36_FailedStartupKeepsFiles ==
    [][\A b, d \in Procs :
          (/\ b # d
           /\ pc[d] = "serving" /\ d \in alive
           /\ pc'[d] = "serving"
           /\ pc'[b] # pc[b] /\ pc'[b] # "crashed"
           /\ Failing(b))
              => /\ (sockFile.exists /\ sockFile.listener = d)
                       => sockFile' = sockFile
                 /\ HeldBy(d, pidFile, alive) => pidFile'.exists]_vars

====
